---- MODULE Spec2Model ----
(***************************************************************************)
(* A model of the broadcast server: the per-connection dispatcher          *)
(* (RunClient / handleData of the bulk, line and typed protocols), the     *)
(* connection object (NetworkClient), the acceptor and the shutdown path   *)
(* (BroadcastServer.AcceptConnections / Close), the front-end's event      *)
(* consumer, and the pub/sub backend (subscribe / unsubscribe / publish).  *)
(***************************************************************************)
EXTENDS Integers, Sequences, FiniteSets, TLC

\* ------------------------------------------------------------------ bounds
MaxReqs == 2       \* requests decoded per connection
NClosers == 2      \* tasks that may call BroadcastServer.Close
NBackends == 2     \* backends that may be loaded

Conns == {1, 2}    \* the remote addresses of the peers
Closers == 1..NClosers
Backends == 1..NBackends

\* ------------------------------------------------------- strings as bytes
\* A command name is a sequence of one-character strings, so that
\* strings.ToUpper is computed character by character.
LowerLetters == <<"a","b","c","d","e","f","g","h","i","j","k","l","m",
                  "n","o","p","q","r","s","t","u","v","w","x","y","z">>
UpperLetters == <<"A","B","C","D","E","F","G","H","I","J","K","L","M",
                  "N","O","P","Q","R","S","T","U","V","W","X","Y","Z">>

UpperChar(ch) ==
    IF \E i \in DOMAIN LowerLetters : LowerLetters[i] = ch
    THEN UpperLetters[CHOOSE i \in DOMAIN LowerLetters : LowerLetters[i] = ch]
    ELSE ch

ToUpperAsIs(s) == s

\* strings.ToUpper
ToUpper(s) == [i \in DOMAIN s |-> UpperChar(s[i])]

Digits == {"0","1","2","3","4","5","6","7","8","9"}

\* strconv.ParseInt(string(d), 10, 64) succeeds (values here are short,
\* unsigned, so only the digits matter)
ParsesAsInt(s) == Len(s) > 0 /\ \A i \in DOMAIN s : s[i] \in Digits

Range(f) == {f[i] : i \in DOMAIN f}

\* string(b) of a byte string
RECURSIVE Join(_)
Join(b) == IF b = <<>> THEN "" ELSE Head(b) \o Join(Tail(b))

\* the *strconv.NumError that ParseInt returns for a string that is no number
ParseIntError(s) == "strconv.ParseInt: parsing \"" \o Join(s) \o "\": invalid syntax"

QUIT == <<"Q","U","I","T">>
PING == <<"P","I","N","G">>
SET  == <<"S","E","T">>
BOOM == <<"B","O","O","M">>

\* errors of the protocol packages
errCmdNotFound == "invalid command format"
errQuit == "client quit"
errSetArgs == "SET takes at least 2 parameters (i.e. key to set and value to set to)"
errCountArgs == "COUNTER takes at least 1 parameter (i.e. key to increment)"

\* ---------------------------------------------------------------- requests
\* A decoded request: data[0] is the command name, data[1:] the arguments.
Requests ==
    { [name |-> <<"q","U","i","t">>, args |-> <<>>],
      [name |-> <<"p","i","n","g">>, args |-> <<>>],
      [name |-> <<"S","E","T">>,     args |-> << <<"k">>, <<"x">> >>],
      [name |-> <<"f","o","o">>,     args |-> <<>>],
      [name |-> <<"b","o","o","m">>, args |-> <<>>] }

\* requests for the handlers of the default and the stats backend, with too
\* few, valid and invalid arguments
HandlerRequests ==
    { [name |-> <<"P","i","n","g">>, args |-> <<>>],
      [name |-> <<"e","c","h","o">>, args |-> <<>>],
      [name |-> <<"E","C","H","O">>, args |-> << <<"a">> >>],
      [name |-> <<"E","c","h","o">>, args |-> << <<"a">>, <<"b">> >>],
      [name |-> <<"s","e","t">>,     args |-> << <<"k">> >>],
      [name |-> <<"S","e","t">>,     args |-> << <<"k">>, <<"7">> >>],
      [name |-> <<"S","E","T">>,     args |-> << <<"k">>, <<"x">> >>],
      [name |-> <<"C","O","U","N","T">>, args |-> <<>>],
      [name |-> <<"c","o","u","n","t">>, args |-> << <<"k">> >>],
      [name |-> <<"C","o","u","n","t">>, args |-> << <<"k">>, <<"x">> >>] }

\* pub/sub requests: topic names and message parts are byte strings
T1 == <<"t","1">>
T2 == <<"t","2">>
MSG == <<"h","i">>
PsRequests ==
    { [name |-> <<"S","U","B","S","C","R","I","B","E">>, args |-> <<T1>>],
      [name |-> <<"s","u","b","s","c","r","i","b","e">>, args |-> <<T1, T2, T1>>],
      [name |-> <<"U","N","S","U","B","S","C","R","I","B","E">>, args |-> <<T1>>],
      [name |-> <<"P","U","B","L","I","S","H">>, args |-> <<T1, MSG>>] }

NoHandler == [id |-> "none", args |-> <<>>, n |-> 0, mode |-> "idle", i |-> 0, absent |-> FALSE]
NoPublish == [cnt |-> 0, key |-> "", found |-> {}, registry |-> {}, targets |-> {}, ret |-> "nil"]

VARIABLES
    codec,       \* protocol the server was constructed with: "bulk", "line", "typed"
    Commands,    \* ctx.Commands: uppercased name -> handler
    CommandHelp, \* ctx.CommandHelp: uppercased name -> Command
    maxIdle,     \* client.maxIdle
    connections, \* client.connections: the idle list, front first
    netClient,   \* per ClientConnection: "nil" or "open"
    finalized,   \* per ClientConnection: who closed its netClient last
    made,        \* the ClientConnections that get has made so far
    user,        \* per user of the client: the call it is in and its connection
    flush,       \* the flush goroutine of the stats backend and its ticker
    backends,    \* app.backends, in registration order
    Closed,      \* app.Closed
    clients,     \* app.clients: the addresses in the connection registry
    ClientSize,  \* ctx.ClientSize
    listener,    \* app.listener: [open, closes]
    Quit,        \* app.Quit: [closed, closes]
    unloads,     \* backend -> number of Unload calls
    proc,        \* the process: [state, cause]
    conn,        \* address -> the NetworkClient and its socket
    disp,        \* address -> position of the connection's RunClient
    log,         \* address -> what the dispatcher and handlers did, in order
    closer,      \* task -> position of its BroadcastServer.Close call
    apc,         \* position of AcceptConnections
    evpc,        \* position of the front-end's event consumer
    watch,       \* address -> the exit watcher started by the acceptor
    dial,        \* the peers that have yet to connect
    topics,      \* PubSubBackend.topics: name -> TopicChannel [size, clients]
    writers,     \* the goroutines started by publish that have yet to write
    pub,         \* the last publish: its number, topic, subscribers found and served
    want,        \* address -> topics of its completed SUBSCRIBEs not yet UNSUBSCRIBEd
    values,      \* mem.values: key -> int64
    counters,    \* mem.counters: key -> Counter [Value, Rate [RatePerSecond, AvgHistory]]
    ops,         \* the calls made on the stats backend so far, with their results
    rt           \* a value on its way through the typed encoding: value, wire, result

\* the memory backend of the stats backend and the history of its operations
memvars == <<values, counters, ops>>

psvars == <<topics, writers, pub, want, memvars, rt>>

\* the BroadcastContext maps
ctxvars == <<Commands, CommandHelp>>

\* the Go client's connection pool and its users
clivars == <<maxIdle, connections, netClient, finalized, made, user>>

vars == <<codec, ctxvars, clivars, flush, backends, Closed, clients, ClientSize, listener, Quit,
          unloads, proc, conn, disp, log, closer, apc, evpc, watch, dial, psvars>>

\* ------------------------------------------------------- command registry
\* BroadcastContext.Register: the handler is stored under the uppercased name
Register(cmds, name, handler) ==
    [k \in DOMAIN cmds \cup {ToUpper(name)} |->
        IF k = ToUpper(name) THEN handler ELSE cmds[k]]

\* the commands registered before AcceptConnections: PING (default backend),
\* SET (stats backend) and an application handler that panics
StartupCommands ==
    LET c1 == Register(<<>>, <<"P","I","N","G">>, "ping")
        c2 == Register(c1, <<"S","E","T">>, "set")
        c3 == Register(c2, <<"B","o","o","m">>, "boom")
        c4 == Register(c3, <<"P","U","B","L","I","S","H">>, "publish")
        c5 == Register(c4, <<"S","U","B","S","C","R","I","B","E">>, "subscribe")
        c6 == Register(c5, <<"U","N","S","U","B","S","C","R","I","B","E">>, "unsubscribe")
        c7 == Register(c6, <<"E","C","H","O">>, "echo")
    IN  Register(c7, <<"C","O","U","N","T">>, "count")

\* BroadcastContext.RegisterHelp: the Command is stored in the help map under
\* its uppercased name; the handler map is not touched
RegisterHelpAsIs(help, cmd) ==
    [k \in DOMAIN help \cup {cmd.Name} |-> IF k = cmd.Name THEN cmd ELSE help[k]]

RegisterHelp(help, cmd) ==
    [k \in DOMAIN help \cup {ToUpper(cmd.Name)} |->
        IF k = ToUpper(cmd.Name) THEN cmd ELSE help[k]]

\* BroadcastContext.RegisterCommand stores the handler with Register and the
\* Command in the help map: after startup every handler has a help entry
StartupHelp ==
    [k \in DOMAIN StartupCommands |->
        [Name |-> IF k = BOOM THEN <<"B","o","o","m">> ELSE k]]

\* commands that a protocol describes with RegisterHelp only
HelpCommands ==
    { [Name |-> <<"I","N","F","O">>], [Name |-> <<"C","m","d","s">>] }

\* requests for the described commands and for a registered one
HelpRequests ==
    { [name |-> <<"i","n","f","o">>, args |-> <<>>],
      [name |-> <<"C","M","D","S">>, args |-> <<>>],
      [name |-> <<"p","i","n","g">>, args |-> <<>>] }

\* the handlers whose Command is registered with the fire-and-forget flag set
FireAndForget == {"count", "publish", "subscribe", "unsubscribe"}

PubSubHandlers == {"publish", "subscribe", "unsubscribe"}

\* BufferClient.WriteInterface of a string argument, and WriteArray: the
\* length line followed by each element
WriteInterface(arg) == "+" \o Join(arg)

RECURSIVE WriteElems(_)
WriteElems(args) ==
    IF args = <<>> THEN "" ELSE WriteInterface(Head(args)) \o WriteElems(Tail(args))

WriteArray(args) == "*" \o ToString(Len(args)) \o WriteElems(args)

\* what a handler does with its arguments: the frames it writes and flushes,
\* and what it returns ("nil", an error message, or "panic")
\* The stats handlers take their arguments with d, _ := data.([][]byte): under
\* the typed protocol data is a []interface{} and d is nil.
HandlerResult(id, args) ==
    LET d == IF codec = "typed" THEN <<>> ELSE args IN
    CASE id = "ping" -> [frames |-> <<"+PONG">>, ret |-> "nil"]
      [] id = "set" ->
            IF Len(d) < 2
            THEN [frames |-> <<"-ERR " \o errSetArgs>>, ret |-> "nil"]
            ELSE IF ~ParsesAsInt(d[2])
                 THEN [frames |-> <<>>, ret |-> ParseIntError(d[2])]
                 ELSE [frames |-> <<":1">>, ret |-> "nil"]
      [] id = "boom" -> [frames |-> <<>>, ret |-> "panic"]
      [] id = "echo" ->
            IF Len(args) = 0
            THEN [frames |-> <<"+">>, ret |-> "nil"]
            ELSE IF codec = "typed"
                 THEN [frames |-> << IF Len(args) = 1 THEN WriteInterface(args[1])
                                     ELSE WriteArray(args) >>, ret |-> "nil"]
                 ELSE [frames |-> [i \in DOMAIN args |-> "+" \o Join(args[i])],
                       ret |-> "nil"]
      [] id = "count" ->
            IF Len(d) = 0
            THEN [frames |-> <<"-ERR " \o errCountArgs>>, ret |-> "nil"]
            ELSE IF Len(d) > 1 /\ ~ParsesAsInt(d[2])
                 THEN [frames |-> <<>>, ret |-> ParseIntError(d[2])]
                 ELSE [frames |-> <<>>, ret |-> "nil"]

\* ------------------------------------------------------------- connection
NewConn == [accepted |-> FALSE, sockOpen |-> FALSE, ConnNil |-> TRUE,
            Closed |-> FALSE, quitClosed |-> FALSE,
            sockCloses |-> 0, closeCalls |-> 0]

\* NetworkClient.Initialize
Initialize(nc) == [nc EXCEPT !.accepted = TRUE, !.sockOpen = TRUE, !.ConnNil = FALSE]

\* NetworkClient.Close. The receiver is a value: the method runs on a copy of
\* the struct, so its assignments to Closed and Conn are lost when it returns,
\* while Conn.Close() and close(Quit) act on the shared socket and channel.
\* Closing a closed channel panics.
NetworkClientClose(nc) ==
    LET copy == nc IN
    IF copy.ConnNil
    THEN [nc |-> [nc EXCEPT !.closeCalls = @ + 1], panic |-> FALSE]
    ELSE [nc |-> [nc EXCEPT !.closeCalls = @ + 1,
                            !.sockOpen = FALSE,
                            !.sockCloses = @ + 1,
                            !.quitClosed = TRUE],
          panic |-> nc.quitClosed]

\* NetworkClient.IsClosed
IsClosed(nc) == nc.Closed

Running == proc.state = "running"
Crash(cause) == [state |-> "crashed", cause |-> cause]

Entry(k, n, v, d) == [k |-> k, n |-> n, v |-> v, d |-> d]

\* WriteX followed by Flush on connection c: the frames reach the socket only
\* while it is open
Frames(n, frames, open) == [i \in DOMAIN frames |-> Entry("frame", n, frames[i], open)]

Written(c, n, frames) == log[c] \o Frames(n, frames, conn[c].sockOpen)

ErrFrameNoMessage(msg) == "-" \o "ERR "

\* WriteError
ErrFrame(msg) == "-" \o "ERR " \o msg

\* ------------------------------------------------------------- event loop
\* The front-end's consumer: for !app.Closed { event := <-app.Events; print }.
\* evpc is "recv" while it is blocked in the receive and "stopped" once it has
\* left the loop. A send on the unbuffered channel needs it in "recv"; it then
\* prints and tests app.Closed again, which is folded into the sender's step:
\* the test sees the flag as it is, or as a Close call that has sent its event
\* and not yet set the flag is about to make it.
Received(closed) == IF closed THEN "stopped" ELSE "recv"

ConsumerAfter ==
    {Received(Closed)} \cup {Received(TRUE) : k \in {j \in Closers : closer[j].pc = "flag"}}

\* -------------------------------------------------------------- dispatcher
handleDataNoUpper(data, cmds) ==
    IF data.name = QUIT THEN [kind |-> "quit", id |-> "none"]
    ELSE IF ToUpper(data.name) \notin DOMAIN cmds THEN [kind |-> "notfound", id |-> "none"]
    ELSE [kind |-> "handler", id |-> cmds[ToUpper(data.name)]]

\* handleData: QUIT is matched on the uppercased name before the registry is
\* consulted; an unregistered name is errCmdNotFound
handleData(data, cmds) ==
    LET cmd == ToUpper(data.name) IN
    IF cmd = QUIT THEN [kind |-> "quit", id |-> "none"]
    ELSE IF cmd \notin DOMAIN cmds THEN [kind |-> "notfound", id |-> "none"]
    ELSE [kind |-> "handler", id |-> cmds[cmd]]

\* what RunClient writes when handleData returned errQuit: the bulk and typed
\* protocols reply OK, the line protocol returns at once
QuitReply(cdc) == IF cdc = "line" THEN <<>> ELSE <<"+OK">>

\* how handleData invokes the handler: the bulk and line protocols start a
\* goroutine and wait on the request-error channel, the typed protocol calls it
HandlerMode(cdc) == IF cdc = "typed" THEN "inline" ELSE "go"

PcAfterSpawnNoWait == "read"

\* where RunClient is after it has started the handler: blocked on the
\* request-error channel (or inside the call)
PcAfterSpawn == "wait"

PcAfterErrorFatal == "closing"

\* where RunClient goes when handleData returned an error other than errQuit:
\* it emits the event, writes the error reply and loops
PcAfterError == "read"

\* ReadBulkPayload / readBulk / ReadInterface returns request r, and
\* err = p.handleData(data, client, reqErr) runs up to the start of the handler.
\* The reader is buffered: a request the peer sent behind the previous one is
\* returned from the buffer whether or not the socket is still open.
Read(c, r) ==
    /\ Running
    /\ disp[c].pc = "read"
    /\ disp[c].n < MaxReqs
    /\ LET n == disp[c].n + 1
           res == handleData(r, Commands)
           req == Entry("req", n, Join(r.name), TRUE) IN
       CASE res.kind = "quit" ->
              /\ log' = [log EXCEPT ![c] =
                           Append(@, req) \o Frames(n, QuitReply(codec), conn[c].sockOpen)]
              /\ disp' = [disp EXCEPT ![c].pc = "closing", ![c].n = n]
         [] res.kind = "notfound" ->
              /\ log' = [log EXCEPT ![c] = Append(@, req)]
              /\ disp' = [disp EXCEPT ![c].pc = "evt-err", ![c].n = n,
                                      ![c].err = errCmdNotFound]
         [] OTHER ->
              /\ log' = [log EXCEPT ![c] = Append(@, req) \o <<Entry("call", n, res.id, TRUE)>>]
              /\ disp' = [disp EXCEPT ![c].pc = PcAfterSpawn, ![c].n = n,
                                      ![c].hnd = [id |-> res.id, args |-> r.args,
                                                  n |-> n, mode |-> HandlerMode(codec),
                                                  i |-> 1, absent |-> FALSE]]
    /\ UNCHANGED <<psvars, dial, codec, ctxvars, clivars, flush, backends, Closed, clients, ClientSize, listener,
                   Quit, unloads, proc, conn, closer, apc, evpc, watch>>

PcAfterEOFAsError == "evt-read"

\* where RunClient goes when the read returned io.EOF: it returns, with no event
PcAfterEOF == "closing"

\* the read returns io.EOF: the peer closed; RunClient returns without an event
ReadEOF(c) ==
    /\ Running
    /\ disp[c].pc = "read"
    /\ conn[c].sockOpen
    /\ disp' = [disp EXCEPT ![c].pc = PcAfterEOF]
    /\ log' = [log EXCEPT ![c] = Append(@, Entry("eof", disp[c].n, "", TRUE))]
    /\ UNCHANGED <<psvars, dial, codec, ctxvars, clivars, flush, backends, Closed, clients, ClientSize, listener,
                   Quit, unloads, proc, conn, closer, apc, evpc, watch>>

errLineFormat == "bad response line format"
errReadRequest == "invalid request protocol"
errBadBulkFormat == "bad bulk string format"
errNetClosed == "use of closed network connection"

\* the errors of the input's framing: ReadLine finds no CR before the LF,
\* the count or length line is malformed, a payload is not followed by CRLF
FramingErrors == {errLineFormat, errReadRequest, errBadBulkFormat}

\* the errors other than io.EOF a read can return: a framing error of the
\* bytes received while the socket is open, the socket's own error once it
\* was closed under the reader
ReadErrors(open) == IF open THEN FramingErrors ELSE {errNetClosed}

\* the read returns an error other than io.EOF
ReadFail(c) ==
    /\ Running
    /\ disp[c].pc = "read"
    /\ \E e \in ReadErrors(conn[c].sockOpen) :
          disp' = [disp EXCEPT ![c].pc = "evt-read", ![c].err = e]
    /\ UNCHANGED <<psvars, dial, codec, ctxvars, clivars, flush, backends, Closed, clients, ClientSize, listener,
                   Quit, unloads, proc, conn, log, closer, apc, evpc, watch>>

\* Events <- {"error", "read error"}; return. The channel is unbuffered: the
\* send completes when the consumer receives.
ReadErrEvent(c) ==
    /\ Running
    /\ disp[c].pc = "evt-read"
    /\ evpc = "recv"
    /\ evpc' \in ConsumerAfter
    /\ log' = [log EXCEPT ![c] = Append(@, Entry("event", disp[c].n, "error: read error", TRUE))]
    /\ disp' = [disp EXCEPT ![c].pc = "closing"]
    /\ UNCHANGED <<psvars, dial, codec, ctxvars, clivars, flush, backends, Closed, clients, ClientSize, listener,
                   Quit, unloads, proc, conn, closer, apc, watch>>

\* the handler runs to its end. A panic in the inline call unwinds into
\* RunClient's deferred recover; a panic in the handler's own goroutine has no
\* recover above it and ends the process.
HandlerRun(c) ==
    /\ Running
    /\ disp[c].hnd.mode # "idle"
    /\ disp[c].hnd.id \notin PubSubHandlers
    /\ LET h == disp[c].hnd
           res == HandlerResult(h.id, h.args) IN
       IF res.ret = "panic"
       THEN IF h.mode = "inline"
            THEN /\ disp' = [disp EXCEPT ![c].pc = "evt-fatal", ![c].hnd = NoHandler]
                 /\ UNCHANGED <<proc, log>>
            ELSE /\ proc' = Crash("handler panic")
                 /\ disp' = [disp EXCEPT ![c].hnd = NoHandler]
                 /\ UNCHANGED log
       ELSE /\ log' = [log EXCEPT ![c] = Written(c, h.n, res.frames)]
            /\ disp' = [disp EXCEPT
                 ![c].hnd = NoHandler,
                 ![c].pc = IF @ # "wait" THEN @
                           ELSE IF res.ret = "nil" THEN "read" ELSE "evt-err",
                 ![c].err = IF res.ret = "nil" THEN @ ELSE res.ret]
            /\ UNCHANGED proc
    /\ UNCHANGED <<psvars, dial, codec, ctxvars, clivars, flush, backends, Closed, clients, ClientSize, listener,
                   Quit, unloads, conn, closer, apc, evpc, watch>>

\* Events <- {"error", "accept error", err}; client.WriteError(err); client.Flush()
ErrEvent(c) ==
    /\ Running
    /\ disp[c].pc = "evt-err"
    /\ evpc = "recv"
    /\ evpc' \in ConsumerAfter
    /\ log' = [log EXCEPT ![c] =
                 Append(@, Entry("event", disp[c].n, "error: accept error", TRUE))
                 \o <<Entry("frame", disp[c].n, ErrFrame(disp[c].err), conn[c].sockOpen)>>]
    /\ disp' = [disp EXCEPT ![c].pc = PcAfterError]
    /\ UNCHANGED <<psvars, dial, codec, ctxvars, clivars, flush, backends, Closed, clients, ClientSize, listener,
                   Quit, unloads, proc, conn, closer, apc, watch>>

\* the deferred function recovered a panic: Events <- {"fatal", "client run panic"}
FatalEvent(c) ==
    /\ Running
    /\ disp[c].pc = "evt-fatal"
    /\ evpc = "recv"
    /\ evpc' \in ConsumerAfter
    /\ log' = [log EXCEPT ![c] = Append(@, Entry("event", disp[c].n, "fatal: client run panic", TRUE))]
    /\ disp' = [disp EXCEPT ![c].pc = "closing"]
    /\ UNCHANGED <<psvars, dial, codec, ctxvars, clivars, flush, backends, Closed, clients, ClientSize, listener,
                   Quit, unloads, proc, conn, closer, apc, watch>>

\* the deferred client.Close() of RunClient
DeferredClose(c) ==
    /\ Running
    /\ disp[c].pc = "closing"
    /\ LET res == NetworkClientClose(conn[c]) IN
       /\ conn' = [conn EXCEPT ![c] = res.nc]
       /\ IF res.panic
          THEN /\ proc' = Crash("close of closed channel: client.Quit")
               /\ UNCHANGED disp
          ELSE /\ disp' = [disp EXCEPT ![c].pc = "done"]
               /\ UNCHANGED proc
    /\ UNCHANGED <<psvars, dial, codec, ctxvars, clivars, flush, backends, Closed, clients, ClientSize, listener,
                   Quit, unloads, log, closer, apc, evpc, watch>>

\* ------------------------------------------------- acceptor and event loop
\* BroadcastServer.LoadBackend, called by the front-end before AcceptConnections
LoadBackend(b) ==
    /\ Running
    /\ apc = "startup"
    /\ \A i \in DOMAIN backends : backends[i] # b
    /\ backends' = Append(backends, b)
    /\ UNCHANGED <<psvars, dial, codec, ctxvars, clivars, flush, Closed, clients, ClientSize, listener, Quit,
                   unloads, proc, conn, disp, log, closer, apc, evpc, watch>>

\* BroadcastServer.RegisterHelp, called while the server is set up
RegisterHelpStep(cmd) ==
    /\ Running
    /\ apc = "startup"
    /\ CommandHelp' = RegisterHelp(CommandHelp, cmd)
    /\ UNCHANGED <<psvars, dial, codec, Commands, clivars, flush, backends, Closed, clients,
                   ClientSize, listener, Quit, unloads, proc, conn, disp, log, closer, apc,
                   evpc, watch>>

\* the front-end calls AcceptConnections
AcceptBegin ==
    /\ Running
    /\ apc = "startup"
    /\ apc' = "info1"
    /\ UNCHANGED <<psvars, dial, codec, ctxvars, clivars, flush, backends, Closed, clients, ClientSize, listener,
                   Quit, unloads, proc, conn, disp, log, closer, evpc, watch>>

\* the two info events at the head of AcceptConnections, then
\* protocol.Initialize and the first test of the loop condition
AcceptInfo ==
    /\ Running
    /\ apc \in {"info1", "info2"}
    /\ evpc = "recv"
    /\ evpc' \in ConsumerAfter
    /\ apc' = IF apc = "info1" THEN "info2" ELSE "loop"
    /\ UNCHANGED <<psvars, dial, codec, ctxvars, clivars, flush, backends, Closed, clients, ClientSize, listener,
                   Quit, unloads, proc, conn, disp, log, closer, watch>>

\* for !app.Closed
AcceptLoop ==
    /\ Running
    /\ apc = "loop"
    /\ apc' = IF Closed THEN "returned" ELSE "accept"
    /\ UNCHANGED <<psvars, dial, codec, ctxvars, clivars, flush, backends, Closed, clients, ClientSize, listener,
                   Quit, unloads, proc, conn, disp, log, closer, evpc, watch>>

\* listener.Accept returns a connection from address c: HandleConnection, the
\* registry insertion, the exit watcher and the dispatcher
Accept(c) ==
    /\ Running
    /\ apc = "accept"
    /\ listener.open
    /\ c \in dial
    /\ dial' = dial \ {c}
    /\ conn' = [conn EXCEPT ![c] = Initialize(@)]
    /\ clients' = clients \cup {c}
    /\ ClientSize' = ClientSize + 1
    /\ watch' = [watch EXCEPT ![c] = "waiting"]
    /\ disp' = [disp EXCEPT ![c].pc = "read"]
    /\ apc' = "loop"
    /\ UNCHANGED <<psvars, codec, ctxvars, clivars, flush, backends, Closed, listener, Quit, unloads,
                   proc, log, closer, evpc>>

\* listener.Accept fails because the listener was closed
AcceptFail ==
    /\ Running
    /\ apc = "accept"
    /\ ~listener.open
    /\ apc' = "evt"
    /\ UNCHANGED <<psvars, dial, codec, ctxvars, clivars, flush, backends, Closed, clients, ClientSize, listener,
                   Quit, unloads, proc, conn, disp, log, closer, evpc, watch>>

\* Events <- {"error", "accept error", err}; continue
AcceptErrEvent ==
    /\ Running
    /\ apc = "evt"
    /\ evpc = "recv"
    /\ evpc' \in ConsumerAfter
    /\ apc' = "loop"
    /\ UNCHANGED <<psvars, dial, codec, ctxvars, clivars, flush, backends, Closed, clients, ClientSize, listener,
                   Quit, unloads, proc, conn, disp, log, closer, watch>>

\* the exit watcher: <-client.WaitExit(); delete(app.clients, addr); ClientSize--
Watcher(c) ==
    /\ Running
    /\ watch[c] = "waiting"
    /\ conn[c].quitClosed
    /\ clients' = clients \ {c}
    /\ ClientSize' = ClientSize - 1
    /\ watch' = [watch EXCEPT ![c] = "done"]
    /\ UNCHANGED <<psvars, dial, codec, ctxvars, clivars, flush, backends, Closed, listener, Quit, unloads, proc,
                   conn, disp, log, closer, apc, evpc>>

\* ------------------------------------------------------------- server Close
\* the steps of BroadcastServer.Close, in program order
CloseOrderSwapped ==
    <<"event", "flag", "clients", "listener", "unload", "quit", "returned">>

CloseOrder == <<"event", "flag", "clients", "unload", "listener", "quit", "returned">>

After(step) == CloseOrder[1 + CHOOSE i \in DOMAIN CloseOrder : CloseOrder[i] = step]

\* Backend.Unload: the stats backend closes its quit channel (a second close
\* panics); the default and pub/sub backends do nothing
UnloadPanics(b, count) == b = 2 /\ count > 0

\* A task calls Close: if app.Closed { return }. The front-ends start the
\* task that calls Close after the backends are loaded.
CloseBegin(k) ==
    /\ Running
    /\ closer[k].pc = "idle"
    /\ apc # "startup"
    /\ closer' = [closer EXCEPT ![k].pc = IF Closed THEN "returned" ELSE CloseOrder[1]]
    /\ UNCHANGED <<psvars, dial, codec, ctxvars, clivars, flush, backends, Closed, clients, ClientSize, listener,
                   Quit, unloads, proc, conn, disp, log, apc, evpc, watch>>

\* Events <- {"close", "broadcast server is closing."}
CloseEvent(k) ==
    /\ Running
    /\ closer[k].pc = "event"
    /\ evpc = "recv"
    /\ evpc' \in ConsumerAfter \cup {Received(TRUE)}
    /\ closer' = [closer EXCEPT ![k].pc = After("event"),
                                ![k].trace = Append(@, <<"event", 0>>)]
    /\ UNCHANGED <<psvars, dial, codec, ctxvars, clivars, flush, backends, Closed, clients, ClientSize, listener,
                   Quit, unloads, proc, conn, disp, log, apc, watch>>

\* app.Closed = true
CloseFlag(k) ==
    /\ Running
    /\ closer[k].pc = "flag"
    /\ Closed' = TRUE
    /\ closer' = [closer EXCEPT ![k].pc = After("flag"),
                                ![k].trace = Append(@, <<"flag", 0>>)]
    /\ UNCHANGED <<psvars, dial, codec, ctxvars, clivars, flush, backends, clients, ClientSize, listener, Quit,
                   unloads, proc, conn, disp, log, apc, evpc, watch>>

\* one iteration of: for _, client := range app.clients { client.Close(); ClientSize-- }
CloseClient(k, c) ==
    /\ Running
    /\ closer[k].pc = "clients"
    /\ c \in clients \ closer[k].visited
    /\ LET res == NetworkClientClose(conn[c]) IN
       /\ conn' = [conn EXCEPT ![c] = res.nc]
       /\ IF res.panic
          THEN /\ proc' = Crash("close of closed channel: client.Quit")
               /\ UNCHANGED <<ClientSize, closer>>
          ELSE /\ ClientSize' = ClientSize - 1
               /\ closer' = [closer EXCEPT ![k].visited = @ \cup {c},
                                           ![k].trace = Append(@, <<"client", c>>)]
               /\ UNCHANGED proc
    /\ UNCHANGED <<psvars, dial, codec, ctxvars, clivars, flush, backends, Closed, clients, listener, Quit, unloads,
                   disp, log, apc, evpc, watch>>

\* the range over app.clients is exhausted
CloseClientsDone(k) ==
    /\ Running
    /\ closer[k].pc = "clients"
    /\ clients \ closer[k].visited = {}
    /\ closer' = [closer EXCEPT ![k].pc = After("clients")]
    /\ UNCHANGED <<psvars, dial, codec, ctxvars, clivars, flush, backends, Closed, clients, ClientSize, listener,
                   Quit, unloads, proc, conn, disp, log, apc, evpc, watch>>

\* one iteration of: for _, backend := range app.backends { backend.Unload() }
CloseUnload(k) ==
    /\ Running
    /\ closer[k].pc = "unload"
    /\ closer[k].idx <= Len(backends)
    /\ LET b == backends[closer[k].idx] IN
       IF UnloadPanics(b, unloads[b])
       THEN /\ proc' = Crash("close of closed channel: stats.quit")
            /\ UNCHANGED <<unloads, closer>>
       ELSE /\ unloads' = [unloads EXCEPT ![b] = @ + 1]
            /\ closer' = [closer EXCEPT ![k].idx = @ + 1,
                                        ![k].trace = Append(@, <<"unload", b>>)]
            /\ UNCHANGED proc
    /\ UNCHANGED <<psvars, dial, codec, ctxvars, clivars, flush, backends, Closed, clients, ClientSize, listener,
                   Quit, conn, disp, log, apc, evpc, watch>>

\* the range over app.backends is exhausted
CloseUnloadDone(k) ==
    /\ Running
    /\ closer[k].pc = "unload"
    /\ closer[k].idx > Len(backends)
    /\ closer' = [closer EXCEPT ![k].pc = After("unload")]
    /\ UNCHANGED <<psvars, dial, codec, ctxvars, clivars, flush, backends, Closed, clients, ClientSize, listener,
                   Quit, unloads, proc, conn, disp, log, apc, evpc, watch>>

\* app.listener.Close()
CloseListener(k) ==
    /\ Running
    /\ closer[k].pc = "listener"
    /\ listener' = [open |-> FALSE, closes |-> listener.closes + 1]
    /\ closer' = [closer EXCEPT ![k].pc = After("listener"),
                                ![k].trace = Append(@, <<"listener", 0>>)]
    /\ UNCHANGED <<psvars, dial, codec, ctxvars, clivars, flush, backends, Closed, clients, ClientSize, Quit,
                   unloads, proc, conn, disp, log, apc, evpc, watch>>

\* close(app.Quit)
CloseQuit(k) ==
    /\ Running
    /\ closer[k].pc = "quit"
    /\ IF Quit.closed
       THEN /\ proc' = Crash("close of closed channel: app.Quit")
            /\ UNCHANGED <<Quit, closer>>
       ELSE /\ Quit' = [closed |-> TRUE]
            /\ closer' = [closer EXCEPT ![k].pc = After("quit"),
                                        ![k].trace = Append(@, <<"quit", 0>>)]
            /\ UNCHANGED proc
    /\ UNCHANGED <<psvars, dial, codec, ctxvars, clivars, flush, backends, Closed, clients, ClientSize, listener,
                   unloads, conn, disp, log, apc, evpc, watch>>

\* the front-end: <-app.Quit; os.Exit(0)
ProcExit ==
    /\ Running
    /\ Quit.closed
    /\ proc' = [state |-> "exited", cause |-> "os.Exit"]
    /\ UNCHANGED <<psvars, dial, codec, ctxvars, clivars, flush, backends, Closed, clients, ClientSize, listener,
                   Quit, unloads, conn, disp, log, closer, apc, evpc, watch>>

\* ------------------------------------------------------------------ pub/sub
\* m[key] = v on a Go map
MapSet(m, key, v) == [k \in DOMAIN m \cup {key} |-> IF k = key THEN v ELSE m[k]]

\* BroadcastServer.GetClient: the lookup of an address in app.clients
GetClient(registry, addr) == addr \in registry

\* subscribe, the branch for a topic that is not in the map
NewTopic(id) == [size |-> 1, clients |-> {id}]

SubscribeLockedAlways(topic, id) ==
    [size |-> topic.size + 1, clients |-> topic.clients \cup {id}]

\* subscribe, the locked section for a topic found in the map
SubscribeLocked(topic, id) ==
    IF id \notin topic.clients
    THEN [size |-> topic.size + 1, clients |-> topic.clients \cup {id}]
    ELSE topic

UnsubscribeLockedAlways(topic, id) ==
    [size |-> topic.size - 1, clients |-> topic.clients \ {id}]

\* unsubscribe, the locked section
UnsubscribeLocked(topic, id) ==
    IF id \in topic.clients
    THEN [size |-> topic.size - 1, clients |-> topic.clients \ {id}]
    ELSE topic

PublishLockedNoCleanup(topic, registry) ==
    IF topic.size > 0
    THEN [topic |-> topic, targets |-> {c \in topic.clients : GetClient(registry, c)}]
    ELSE [topic |-> topic, targets |-> {}]

\* publish, the locked section: a writer goroutine for every subscriber found
\* in the registry, the others are deleted from the topic's clients
PublishLocked(topic, registry) ==
    IF topic.size > 0
    THEN LET deletions == {c \in topic.clients : ~GetClient(registry, c)} IN
         [topic |-> [topic EXCEPT !.clients = @ \ deletions],
          targets |-> {c \in topic.clients : GetClient(registry, c)}]
    ELSE [topic |-> topic, targets |-> {}]

\* WriteLen
WriteLen(prefix, n) == prefix \o ToString(n) \o "\r\n"

\* WriteBytes
WriteBytes(b) == WriteLen("$", Len(b)) \o Join(b) \o "\r\n"

\* WriteBulk: the writes it makes into the connection's buffered writer, one
\* after the other and without holding the client's mutex: the length line,
\* then WriteBytes for each part
WriteBulk(data) == <<WriteLen("*", Len(data))>> \o [i \in DOMAIN data |-> WriteBytes(data[i])]

PublishReturnLeak(failed) == IF failed # {} THEN "write error" ELSE "nil"

\* what publish returns; the writes to the subscribers are made by goroutines
\* whose errors are dropped, so it is nil whichever of them fail
PublishReturn(failed) == "nil"

\* the handler returns err: the dispatcher receives it
ReturnedErr(d, err) ==
    IF err = "nil" THEN [d EXCEPT !.hnd = NoHandler, !.pc = IF @ = "wait" THEN "read" ELSE @]
    ELSE [d EXCEPT !.hnd = NoHandler, !.pc = IF @ = "wait" THEN "evt-err" ELSE @, !.err = err]

\* the handler returns nil: the dispatcher receives it and loops
Returned(d) == [d EXCEPT !.hnd = NoHandler, !.pc = IF @ = "wait" THEN "read" ELSE @]

\* one step of subscribe for the next topic of the request: the map lookup,
\* then either the locked insertion or, in a later step, the store of a new topic
Subscribe(c) ==
    /\ Running
    /\ disp[c].hnd.id = "subscribe"
    /\ LET h == disp[c].hnd
           last == h.i >= Len(h.args)
           step(d) == IF last THEN Returned(d) ELSE [d EXCEPT !.hnd.i = @ + 1, !.hnd.absent = FALSE]
       IN
       IF Len(h.args) < 1
       THEN /\ disp' = [disp EXCEPT ![c] = Returned(@)]
            /\ UNCHANGED <<topics, want>>
       ELSE LET key == h.args[h.i] IN
            IF h.absent
            THEN /\ topics' = MapSet(topics, key, NewTopic(c))
                 /\ disp' = [disp EXCEPT ![c] = step(@)]
                 /\ want' = IF last THEN [want EXCEPT ![c] = @ \cup Range(h.args)] ELSE want
            ELSE IF key \in DOMAIN topics
            THEN /\ topics' = [topics EXCEPT ![key] = SubscribeLocked(@, c)]
                 /\ disp' = [disp EXCEPT ![c] = step(@)]
                 /\ want' = IF last THEN [want EXCEPT ![c] = @ \cup Range(h.args)] ELSE want
            ELSE /\ disp' = [disp EXCEPT ![c].hnd.absent = TRUE]
                 /\ UNCHANGED <<topics, want>>
    /\ UNCHANGED <<memvars, rt, writers, pub, dial, codec, ctxvars, clivars, flush, backends, Closed, clients, ClientSize,
                   listener, Quit, unloads, proc, conn, log, closer, apc, evpc, watch>>

\* one step of unsubscribe for the next topic of the request
Unsubscribe(c) ==
    /\ Running
    /\ disp[c].hnd.id = "unsubscribe"
    /\ LET h == disp[c].hnd
           last == h.i >= Len(h.args)
       IN
       /\ disp' = [disp EXCEPT ![c] = IF last THEN Returned(@) ELSE [@ EXCEPT !.hnd.i = @ + 1]]
       /\ want' = IF last THEN [want EXCEPT ![c] = @ \ Range(h.args)] ELSE want
       /\ IF Len(h.args) >= 1 /\ h.args[h.i] \in DOMAIN topics
          THEN topics' = [topics EXCEPT ![h.args[h.i]] = UnsubscribeLocked(@, c)]
          ELSE UNCHANGED topics
    /\ UNCHANGED <<memvars, rt, writers, pub, dial, codec, ctxvars, clivars, flush, backends, Closed, clients, ClientSize,
                   listener, Quit, unloads, proc, conn, log, closer, apc, evpc, watch>>

\* publish
Publish(c) ==
    /\ Running
    /\ disp[c].hnd.id = "publish"
    /\ LET d == disp[c].hnd.args IN
       IF Len(d) < 2
       THEN /\ disp' = [disp EXCEPT ![c] = Returned(@)]
            /\ UNCHANGED <<topics, writers, pub>>
       ELSE LET key == d[1]
                message == Tail(d)
                n == pub.cnt + 1 IN
            IF key \in DOMAIN topics
            THEN LET res == PublishLocked(topics[key], clients)
                     ret == PublishReturn({t \in res.targets : ~conn[t].sockOpen}) IN
                 /\ topics' = [topics EXCEPT ![key] = res.topic]
                 /\ writers' = writers \cup {[to |-> t, id |-> n, msg |-> message, i |-> 1] :
                                                t \in res.targets}
                 /\ pub' = [cnt |-> n, key |-> key, found |-> topics[key].clients,
                            registry |-> clients, targets |-> res.targets, ret |-> ret]
                 /\ disp' = [disp EXCEPT ![c] = ReturnedErr(@, ret)]
            ELSE /\ pub' = [cnt |-> n, key |-> key, found |-> {}, registry |-> clients,
                            targets |-> {}, ret |-> "nil"]
                 /\ disp' = [disp EXCEPT ![c] = Returned(@)]
                 /\ UNCHANGED <<topics, writers>>
    /\ UNCHANGED <<memvars, rt, want, dial, codec, ctxvars, clivars, flush, backends, Closed, clients, ClientSize,
                   listener, Quit, unloads, proc, conn, log, closer, apc, evpc, watch>>

\* a goroutine started by publish: sClient.WriteBulk(message); sClient.Flush().
\* One step is one write of WriteBulk; the Flush follows the last. Nothing
\* orders the writes of two goroutines on the same connection.
Deliver(w) ==
    /\ Running
    /\ w \in writers
    /\ writers' = IF w.i < Len(WriteBulk(w.msg))
                  THEN (writers \ {w}) \cup {[w EXCEPT !.i = @ + 1]}
                  ELSE writers \ {w}
    /\ log' = [log EXCEPT ![w.to] =
                 Append(@, Entry("msg", w.id, WriteBulk(w.msg)[w.i], conn[w.to].sockOpen))]
    /\ UNCHANGED <<memvars, rt, topics, pub, want, dial, codec, ctxvars, clivars, flush, backends, Closed, clients,
                   ClientSize, listener, Quit, unloads, proc, conn, disp, closer, apc, evpc, watch>>

RECURSIVE Pieces(_, _, _, _)
Pieces(id, writes, from, open) ==
    IF from > Len(writes) THEN <<>>
    ELSE <<Entry("msg", id, writes[from], open)>> \o Pieces(id, writes, from + 1, open)

\* the same goroutine when it is not preempted between its writes
DeliverAll(w) ==
    /\ Running
    /\ w \in writers
    /\ writers' = writers \ {w}
    /\ log' = [log EXCEPT ![w.to] = @ \o Pieces(w.id, WriteBulk(w.msg), w.i, conn[w.to].sockOpen)]
    /\ UNCHANGED <<memvars, rt, topics, pub, want, dial, codec, ctxvars, clivars, flush, backends, Closed, clients,
                   ClientSize, listener, Quit, unloads, proc, conn, disp, closer, apc, evpc, watch>>

\* ------------------------------------------------- stats: memory backend
MaxOps == 4

ErrNotFound == "key not found"
\* the messages of the handlers called with too few arguments
errArgs ==
    [SET   |-> errSetArgs,
     SETNX |-> "SETNX takes at least 2 parameters (i.e. key to set and value to set to, if not already set)",
     GET   |-> "GET takes at least 1 parameter (i.e. key to get)",
     DEL   |-> "DEL takes at least 1 parameter (i.e. key to delete)",
     INCR  |-> "INCR takes at least 1 parameter (i.e. key to increment)",
     DECR  |-> "DECR takes at least 1 parameter (i.e. key to increment)",
     COUNT |-> errCountArgs]

\* NewMemoryBackend: mem.maxCounterHistory
maxCounterHistory == 100

\* the value of a sequence of decimal digits
RECURSIVE Atoi(_)
Atoi(s) ==
    IF s = <<>> THEN 0
    ELSE 10 * Atoi(SubSeq(s, 1, Len(s) - 1)) + (CHOOSE n \in 0..9 : ToString(n) = s[Len(s)])

\* StatsBackend.readInt64: strconv.ParseInt(string(d), 10, 64), an optional
\* sign followed by digits (the values here are far from the int64 limits)
readInt64(d) ==
    LET signed == Len(d) > 0 /\ d[1] \in {"-", "+"}
        body == IF signed THEN Tail(d) ELSE d IN
    IF ~ParsesAsInt(body) THEN [n |-> 0, err |-> ParseIntError(d)]
    ELSE [n |-> IF signed /\ d[1] = "-" THEN 0 - Atoi(body) ELSE Atoi(body), err |-> "nil"]

\* MemoryBackend.Get
Get(vals, name) ==
    IF name \in DOMAIN vals THEN [ret |-> vals[name], err |-> "nil"]
    ELSE [ret |-> 0, err |-> ErrNotFound]

\* MemoryBackend.Set
Set(vals, name, value) == [values |-> MapSet(vals, name, value), ret |-> 1]

SetNxOverwrite(vals, name, value) == [values |-> MapSet(vals, name, value), ret |-> 1]

\* MemoryBackend.SetNx
SetNx(vals, name, value) ==
    IF name \notin DOMAIN vals
    THEN [values |-> MapSet(vals, name, value), ret |-> 1]
    ELSE [values |-> vals, ret |-> -1]

MapDel(m, key) == [k \in DOMAIN m \ {key} |-> m[k]]

\* MemoryBackend.Del: the key is removed from the values and from the counters
Del(vals, ctrs, name) ==
    [values |-> MapDel(vals, name), counters |-> MapDel(ctrs, name),
     ret |-> (IF name \in DOMAIN vals THEN 1 ELSE 0) + (IF name \in DOMAIN ctrs THEN 1 ELSE 0)]

\* MemoryBackend.IncrBy
IncrBy(vals, name, count) ==
    IF name \in DOMAIN vals
    THEN [values |-> MapSet(vals, name, vals[name] + count), ret |-> vals[name] + count]
    ELSE [values |-> MapSet(vals, name, count), ret |-> count]

\* MemoryBackend.DecrBy: for a missing key it stores -count and returns count
DecrBy(vals, name, count) ==
    IF name \in DOMAIN vals
    THEN [values |-> MapSet(vals, name, vals[name] - count), ret |-> vals[name] - count]
    ELSE [values |-> MapSet(vals, name, (0 - 1) * count), ret |-> count]

\* a float64 rate is kept as the quotient it was computed from
Rate(num, den) == [num |-> num, den |-> den]

\* &Counter{count, &CounterRate{0, make([]float64, 0)}}
NewCounter(count) == [Value |-> count, RatePerSecond |-> Rate(0, 1), AvgHistory |-> <<>>]

\* MemoryBackend.CounterBy
CounterBy(ctrs, name, count) ==
    IF name \in DOMAIN ctrs
    THEN MapSet(ctrs, name, [ctrs[name] EXCEPT !.Value = @ + count])
    ELSE MapSet(ctrs, name, NewCounter(count))

\* AvgHistory[l-maxCounterHistory:] when l > maxCounterHistory
Capped(h, max) == IF Len(h) > max THEN SubSeq(h, Len(h) - max + 1, Len(h)) ELSE h

FlushCountersKeepValue(ctrs, d) ==
    [k \in DOMAIN ctrs |->
        [Value |-> ctrs[k].Value,
         RatePerSecond |-> Rate(ctrs[k].Value, d),
         AvgHistory |-> Capped(Append(ctrs[k].AvgHistory, ctrs[k].RatePerSecond),
                               maxCounterHistory)]]

\* MemoryBackend.FlushCounters, d seconds after the previous flush
FlushCounters(ctrs, d) ==
    [k \in DOMAIN ctrs |->
        [Value |-> 0,
         RatePerSecond |-> Rate(ctrs[k].Value, d),
         AvgHistory |-> Capped(Append(ctrs[k].AvgHistory, ctrs[k].RatePerSecond),
                               maxCounterHistory)]]

\* BufferClient.WriteInt64 and WriteNull, as frames
WriteInt64(n) == ":" \o ToString(n)
WriteNull == "$" \o "-1"

\* StatsBackend.FlushInt
FlushInt(i, err) == IF err # "nil" THEN [frames |-> <<>>, ret |-> err]
                    ELSE [frames |-> <<WriteInt64(i)>>, ret |-> "nil"]

FlushNilAsZero == [frames |-> <<WriteInt64(0)>>, ret |-> "nil"]

\* StatsBackend.FlushNil
FlushNil == [frames |-> <<WriteNull>>, ret |-> "nil"]

Same(vals, ctrs, out) == [values |-> vals, counters |-> ctrs, frames |-> out.frames, ret |-> out.ret]

TooFew(vals, ctrs, msg) ==
    [values |-> vals, counters |-> ctrs, frames |-> <<ErrFrame(msg)>>, ret |-> "nil"]

Failed(vals, ctrs, err) == [values |-> vals, counters |-> ctrs, frames |-> <<>>, ret |-> err]

\* StatsBackend.Set / SetNx / Get / Del / Incr / Decr / Count on the bulk
\* protocol's arguments d: the frames written and flushed, the handler's
\* return value and the memory backend after the call
StatsHandler(cmd, d, vals, ctrs) ==
    LET key == Join(d[1])
        byv == IF Len(d) > 1 THEN readInt64(d[2]) ELSE [n |-> 1, err |-> "nil"] IN
    CASE cmd \in {"SET", "SETNX"} ->
           IF Len(d) < 2 THEN TooFew(vals, ctrs, errArgs[cmd])
           ELSE IF byv.err # "nil" THEN Failed(vals, ctrs, byv.err)
           ELSE LET r == IF cmd = "SET" THEN Set(vals, key, byv.n) ELSE SetNx(vals, key, byv.n) IN
                Same(r.values, ctrs, FlushInt(r.ret, "nil"))
      [] cmd = "GET" ->
           IF Len(d) = 0 THEN TooFew(vals, ctrs, errArgs[cmd])
           ELSE LET r == Get(vals, key) IN
                Same(vals, ctrs, IF r.err = ErrNotFound THEN FlushNil ELSE FlushInt(r.ret, r.err))
      [] cmd = "DEL" ->
           IF Len(d) = 0 THEN TooFew(vals, ctrs, errArgs[cmd])
           ELSE LET RECURSIVE DelAll(_, _, _, _)
                    DelAll(i, v, c, n) ==
                        IF i > Len(d) THEN Same(v, c, FlushInt(n, "nil"))
                        ELSE LET r == Del(v, c, Join(d[i])) IN
                             DelAll(i + 1, r.values, r.counters, n + r.ret)
                IN DelAll(1, vals, ctrs, 0)
      [] cmd \in {"INCR", "DECR"} ->
           IF Len(d) = 0 THEN TooFew(vals, ctrs, errArgs[cmd])
           ELSE IF byv.err # "nil" THEN Failed(vals, ctrs, byv.err)
           ELSE LET r == IF cmd = "INCR" THEN IncrBy(vals, key, byv.n)
                                         ELSE DecrBy(vals, key, byv.n) IN
                Same(r.values, ctrs, FlushInt(r.ret, "nil"))
      [] cmd = "COUNT" ->
           IF Len(d) = 0 THEN TooFew(vals, ctrs, errArgs[cmd])
           ELSE IF byv.err # "nil" THEN Failed(vals, ctrs, byv.err)
           ELSE [values |-> vals, counters |-> CounterBy(ctrs, key, byv.n),
                 frames |-> <<>>, ret |-> "nil"]

\* the requests sent to the stats backend
StoreRequests ==
    [cmd : {"SET", "SETNX"}, d : {<< <<k>>, v >> : k \in {"a", "b"}, v \in {<<"0">>, <<"7">>}}]
    \cup [cmd : {"GET", "DEL"}, d : {<< <<"a">> >>, << <<"b">> >>}]
    \cup [cmd : {"INCR", "DECR", "COUNT"}, d : {<< <<"a">> >>}]
    \cup { [cmd |-> "SET", d |-> << <<"a">>, <<"x">> >>],
           [cmd |-> "SETNX", d |-> << <<"a">> >>],
           [cmd |-> "GET", d |-> <<>>],
           [cmd |-> "DEL", d |-> << <<"a">>, <<"b">> >>],
           [cmd |-> "DECR", d |-> << <<"b">>, <<"-", "7">> >>] }

CountRequests ==
    { [cmd |-> "COUNT", d |-> << <<"a">> >>],
      [cmd |-> "COUNT", d |-> << <<"a">>, <<"2">> >>],
      [cmd |-> "COUNT", d |-> << <<"b">> >>] }

\* the seconds the ticker's period can measure between two flushes
FlushSeconds == {5, 6}

\* a handler of the stats backend runs on request r; the memory backend's
\* mutex makes its call on the backend one step
StatsRequest(r) ==
    /\ Running
    /\ Len(ops) < MaxOps
    /\ LET res == StatsHandler(r.cmd, r.d, values, counters) IN
       /\ values' = res.values
       /\ counters' = res.counters
       /\ ops' = Append(ops, [cmd |-> r.cmd, d |-> r.d, frames |-> res.frames, ret |-> res.ret,
                              values |-> values, counters |-> counters])
    /\ UNCHANGED <<rt, topics, writers, pub, want, dial, codec, ctxvars, clivars, flush, backends, Closed, clients,
                   ClientSize, listener, Quit, unloads, proc, conn, disp, log, closer, apc,
                   evpc, watch>>

\* the ticker of StatsBackend.Load fires: stats.mem.FlushCounters()
Flush(d) ==
    /\ Running
    /\ Len(ops) < MaxOps
    /\ counters' = FlushCounters(counters, d)
    /\ ops' = Append(ops, [cmd |-> "flush", d |-> d, frames |-> <<>>, ret |-> "nil",
                           values |-> values, counters |-> counters])
    /\ UNCHANGED <<rt, values, topics, writers, pub, want, dial, codec, ctxvars, clivars, flush, backends, Closed,
                   clients, ClientSize, listener, Quit, unloads, proc, conn, disp, log, closer,
                   apc, evpc, watch>>

\* MemoryBackend.Keys for the empty pattern, "*" and a pattern without "*":
\* for the first two it makes a slice of len(mem.values) strings and stores
\* every key at index iter, which stays 0, so the slice holds the key the
\* iteration visits last, then empty strings; last is that key
Keys(vals, pattern, last) ==
    IF pattern = "" \/ pattern = "*"
    THEN [i \in 1..Cardinality(DOMAIN vals) |-> IF i = 1 THEN last ELSE ""]
    ELSE IF pattern \in DOMAIN vals THEN <<pattern>> ELSE <<>>

\* WriteLen('*', len(results)), then WriteString for each result
RECURSIVE WriteStrings(_)
WriteStrings(results) ==
    IF results = <<>> THEN "" ELSE "+" \o Head(results) \o WriteStrings(Tail(results))

KeysReply(results) == "*" \o ToString(Len(results)) \o WriteStrings(results)

\* the requests that fill the values map, and the KEYS requests
FillRequests ==
    { [cmd |-> "SET",   d |-> << <<"a">>, <<"7">> >>],
      [cmd |-> "SETNX", d |-> << <<"b">>, <<"0">> >>],
      [cmd |-> "INCR",  d |-> << <<"c">> >>],
      [cmd |-> "DECR",  d |-> << <<"b">> >>],
      [cmd |-> "DEL",   d |-> << <<"a">> >>] }

KeysRequests ==
    { [cmd |-> "KEYS", d |-> <<>>],
      [cmd |-> "KEYS", d |-> << <<"*">> >>],
      [cmd |-> "KEYS", d |-> << <<"a">> >>] }

\* StatsBackend.Keys on request r; Go ranges over the map in an order of its
\* choosing
KeysRequest(r) ==
    /\ Running
    /\ Len(ops) < MaxOps
    /\ \E last \in (IF DOMAIN values = {} THEN {""} ELSE DOMAIN values) :
         LET key == IF Len(r.d) > 0 THEN Join(r.d[1]) ELSE ""
             results == Keys(values, key, last) IN
         ops' = Append(ops, [cmd |-> r.cmd, d |-> r.d, frames |-> <<KeysReply(results)>>,
                             ret |-> "nil", values |-> values, counters |-> counters])
    /\ UNCHANGED <<rt, values, counters, topics, writers, pub, want, dial, codec, ctxvars, clivars, flush,
                   backends, Closed, clients, ClientSize, listener, Quit, unloads, proc, conn,
                   disp, log, closer, apc, evpc, watch>>

\* NewMemoryBackend
InitMem ==
    /\ values = <<>>
    /\ counters = <<>>
    /\ ops = <<>>

\* ------------------------------------------------- typed wire encoding
\* A value is a record: t is its Go type, and the field of that type holds
\* it: s the characters of a string, of a byte payload, of an error's message
\* or the one byte, n the integer, b the boolean, a the elements of an array.
\* The wire is a sequence of bytes.
MaxLen == 2

Nil == [t |-> "nil", s |-> <<>>, n |-> 0, b |-> FALSE, a |-> <<>>]
Text(t, s) == [Nil EXCEPT !.t = t, !.s = s]
Int64(n) == [Nil EXCEPT !.t = "int64", !.n = n]
Bool(b) == [Nil EXCEPT !.t = "bool", !.b = b]
Array(a) == [Nil EXCEPT !.t = "array", !.a = a]

Delims == <<"\r", "\n">>

\* strconv.AppendInt(nil, n, 10)
RECURSIVE AppendInt(_)
AppendInt(n) ==
    IF n < 0 THEN <<"-">> \o AppendInt(0 - n)
    ELSE IF n < 10 THEN <<ToString(n)>>
    ELSE AppendInt(n \div 10) \o <<ToString(n % 10)>>

\* fmt.Fprint(&buf, arg) of the values WriteInterface has no case for: an
\* error prints as its message, a slice as its elements between brackets
RECURSIVE Fprint(_)
Fprint(arg) ==
    CASE arg.t \in {"string", "error"} -> arg.s
      [] arg.t = "int64" -> AppendInt(arg.n)
      [] arg.t = "array" ->
           LET RECURSIVE Elems(_)
               Elems(s) == IF s = <<>> THEN <<>>
                           ELSE IF Len(s) = 1 THEN Fprint(s[1])
                           ELSE Fprint(s[1]) \o <<" ">> \o Elems(Tail(s))
           IN <<"[">> \o Elems(arg.a) \o <<"]">>

\* BufferClient.WriteBytes: WriteLen('$', len(b)), the bytes, Delims
WireBytes(b) == <<"$">> \o AppendInt(Len(b)) \o Delims \o b \o Delims

\* BufferClient.WriteInterface: the switch on the argument's type; an error
\* and a slice of values fall to the default case
WireInterface(arg) ==
    CASE arg.t = "string" -> <<"+">> \o arg.s \o Delims
      [] arg.t = "int64" -> <<":">> \o AppendInt(arg.n) \o Delims
      [] arg.t = "bool" -> <<"?", IF arg.b THEN "1" ELSE "0">> \o Delims
      [] arg.t = "byte" -> <<"&">> \o arg.s \o Delims
      [] arg.t = "bytes" -> WireBytes(arg.s)
      [] arg.t = "nil" -> <<"$", "-", "1">> \o Delims
      [] OTHER -> WireBytes(Fprint(arg))

\* what the writer holds after the Write method of the value's type:
\* WriteError for an error, WriteArray for an array, for the others the
\* method WriteInterface selects
WireValue(arg) ==
    CASE arg.t = "error" -> <<"-", "E", "R", "R", " ">> \o arg.s \o Delims
      [] arg.t = "array" ->
           LET RECURSIVE Elems(_)
               Elems(s) == IF s = <<>> THEN <<>> ELSE WireInterface(Head(s)) \o Elems(Tail(s))
           IN <<"*">> \o AppendInt(Len(arg.a)) \o Delims \o Elems(arg.a)
      [] OTHER -> WireInterface(arg)

errEOF == "EOF"

\* the result of a read: the value, the error and the bytes left in the reader
Got(val, rest) == [val |-> val, err |-> "nil", rest |-> rest]
ReadErr(err, rest) == [val |-> Nil, err |-> err, rest |-> rest]

\* BufferClient.ReadLine: Reader.ReadSlice('\n'), then the CR before the LF
ReadLine(in) ==
    LET ends == {i \in DOMAIN in : in[i] = "\n"} IN
    IF ends = {} THEN [line |-> <<>>, err |-> errEOF, rest |-> <<>>]
    ELSE LET n == CHOOSE i \in ends : \A j \in ends : i <= j
             rest == SubSeq(in, n + 1, Len(in)) IN
         IF n < 2 \/ in[n - 1] # "\r"
         THEN [line |-> <<>>, err |-> errLineFormat, rest |-> rest]
         ELSE [line |-> SubSeq(in, 1, n - 2), err |-> "nil", rest |-> rest]

\* BufferClient.ParseInt64
ParseInt64(b) == IF Len(b) = 0 THEN [n |-> 0, err |-> "nil"] ELSE readInt64(b)

\* BufferClient.ReadInterface; ReadElems is the loop of its '*' case
RECURSIVE ReadInterface(_)
RECURSIVE ReadElems(_, _, _)
ReadElems(in, n, acc) ==
    IF n <= 0 THEN Got(Array(acc), in)
    ELSE LET e == ReadInterface(in) IN
         IF e.err # "nil" THEN e ELSE ReadElems(e.rest, n - 1, Append(acc, e.val))

ReadInterface(in) ==
    LET l == ReadLine(in)
        line == l.line
        arg == Tail(line)
        n == ParseInt64(arg) IN
    IF l.err # "nil" THEN ReadErr(l.err, l.rest)
    ELSE IF Len(line) < 2 THEN ReadErr(errReadRequest, l.rest)
    ELSE CASE line[1] = "$" ->
                IF n.err # "nil" THEN ReadErr(n.err, l.rest)
                ELSE IF n.n = -1 THEN Got(Nil, l.rest)
                ELSE IF Len(l.rest) < n.n THEN ReadErr(errEOF, <<>>)
                ELSE LET buffer == SubSeq(l.rest, 1, n.n)
                         end == ReadLine(SubSeq(l.rest, n.n + 1, Len(l.rest))) IN
                     IF end.err # "nil" THEN ReadErr(end.err, end.rest)
                     ELSE IF Len(end.line) # 0 THEN ReadErr(errBadBulkFormat, end.rest)
                     ELSE Got(Text("bytes", buffer), end.rest)
           [] line[1] = "*" ->
                IF n.err # "nil" THEN ReadErr(n.err, l.rest) ELSE ReadElems(l.rest, n.n, <<>>)
           [] line[1] = "&" -> Got(Text("byte", <<arg[1]>>), l.rest)
           [] line[1] = "+" -> Got(Text("string", arg), l.rest)
           [] line[1] = ":" ->
                IF n.err # "nil" THEN ReadErr(n.err, l.rest) ELSE Got(Int64(n.n), l.rest)
           [] line[1] = "?" -> Got(Bool(arg[1] = "1"), l.rest)
           [] line[1] = "-" -> Got(Text("error", arg), l.rest)
           [] OTHER -> ReadErr(errReadRequest, l.rest)

\* the values written: scalars of every supported type, and arrays of at
\* most MaxLen scalars, of one array, or of nothing
Texts == {<<>>, <<"a">>, <<"a", "b">>, <<"7">>}

Scalars ==
    {Text("string", s) : s \in Texts}
    \cup {Int64(n) : n \in {-12, 0, 7, 305}}
    \cup {Bool(b) : b \in BOOLEAN}
    \cup {Text("byte", <<b>>) : b \in {"a", "0", "\n"}}
    \cup {Text("bytes", s) : s \in Texts \cup {<<"\r", "\n">>, <<"+", "a", "\r", "\n">>}}
    \cup {Nil}
    \cup {Text("error", <<"n", "o">>)}

Arrays ==
    {Array(a) : a \in UNION {[1..n -> Scalars] : n \in 0..MaxLen}}
    \cup {Array(<<Array(a)>>) : a \in {<<>>, <<Text("string", <<"a">>)>>}}

NoRoundTrip == [pc |-> "off", value |-> Nil, wire |-> <<>>, got |-> ReadErr("", <<>>)]

\* the writer's side: the value is written and flushed
WriteValue ==
    /\ rt.pc = "write"
    /\ rt' = [rt EXCEPT !.pc = "read", !.wire = WireValue(rt.value)]
    /\ UNCHANGED <<topics, writers, pub, want, memvars, dial, codec, ctxvars, clivars, flush, backends, Closed,
                   clients, ClientSize, listener, Quit, unloads, proc, conn, disp, log, closer,
                   apc, evpc, watch>>

\* the reader's side: ReadInterface on the bytes received
ReadValue ==
    /\ rt.pc = "read"
    /\ rt' = [rt EXCEPT !.pc = "done", !.got = ReadInterface(rt.wire)]
    /\ UNCHANGED <<topics, writers, pub, want, memvars, dial, codec, ctxvars, clivars, flush, backends, Closed,
                   clients, ClientSize, listener, Quit, unloads, proc, conn, disp, log, closer,
                   apc, evpc, watch>>

\* ------------------------------------------------- bulk request decoding
errMakeSlice == "panic: runtime error: makeslice: len out of range"
errIndex == "panic: runtime error: index out of range"

\* BufferClient.ReadPayload: $<length>, the bytes, an empty line; $-1 is nil,
\* and make([]byte, n) panics for any other negative n
ReadPayload(in) ==
    LET l == ReadLine(in)
        n == ParseInt64(Tail(l.line)) IN
    IF l.err # "nil" THEN ReadErr(l.err, l.rest)
    ELSE IF Len(l.line) < 2 THEN ReadErr(errReadRequest, l.rest)
    ELSE IF l.line[1] # "$" THEN ReadErr(errReadRequest, l.rest)
    ELSE IF n.err # "nil" THEN ReadErr(n.err, l.rest)
    ELSE IF n.n = -1 THEN Got(Nil, l.rest)
    ELSE IF n.n < 0 THEN ReadErr(errMakeSlice, l.rest)
    ELSE IF Len(l.rest) < n.n THEN ReadErr(errEOF, <<>>)
    ELSE LET end == ReadLine(SubSeq(l.rest, n.n + 1, Len(l.rest))) IN
         IF end.err # "nil" THEN ReadErr(end.err, end.rest)
         ELSE IF Len(end.line) # 0 THEN ReadErr(errBadBulkFormat, end.rest)
         ELSE Got(Text("bytes", SubSeq(l.rest, 1, n.n)), end.rest)

RECURSIVE ReadPayloads(_, _, _)
ReadPayloads(in, n, acc) ==
    IF n <= 0 THEN Got(Array(acc), in)
    ELSE LET e == ReadPayload(in) IN
         IF e.err # "nil" THEN e ELSE ReadPayloads(e.rest, n - 1, Append(acc, e.val))

\* BufferClient.ReadBulkPayload: *<count>, then count payloads;
\* make([][]byte, n) panics for a negative n
ReadBulkPayload(in) ==
    LET l == ReadLine(in)
        n == ParseInt64(Tail(l.line)) IN
    IF l.err # "nil" THEN ReadErr(l.err, l.rest)
    ELSE IF Len(l.line) < 2 THEN ReadErr(errReadRequest, l.rest)
    ELSE IF l.line[1] # "*" THEN ReadErr(errReadRequest, l.rest)
    ELSE IF n.err # "nil" THEN ReadErr(n.err, l.rest)
    ELSE IF n.n < 0 THEN ReadErr(errMakeSlice, l.rest)
    ELSE ReadPayloads(l.rest, n.n, <<>>)

\* how RunClient leaves the request that ReadBulkPayload returned as got:
\* io.EOF ends the loop, another error is reported, a panic of the read or of
\* handleData's data[0] is recovered by the deferred function, and otherwise
\* the name goes to the lookup in ctx.Commands
Handled(got) ==
    IF got.err = errEOF THEN "eof"
    ELSE IF got.err \in {errMakeSlice, errIndex} THEN "fatal"
    ELSE IF got.err # "nil" THEN "rejected"
    ELSE IF Len(got.val.a) = 0 THEN "fatal"
    ELSE "lookup"

\* the bytes a client sends for the request data
WireBulk(data) ==
    LET RECURSIVE Elems(_)
        Elems(s) == IF s = <<>> THEN <<>> ELSE WireBytes(Head(s)) \o Elems(Tail(s))
    IN <<"*">> \o AppendInt(Len(data)) \o Delims \o Elems(data)

\* the requests received: well-formed ones of up to MaxLen elements, the
\* zero-element one included, and malformed ones
BulkWires ==
    {WireBulk(d) : d \in UNION {[1..n -> Texts \cup {<<"q">>, <<"P", "I", "N", "G">>}] :
                                n \in 0..MaxLen}}
    \cup { <<"*", "-", "1">> \o Delims,
           <<"*", "-", "2">> \o Delims,
           <<"*">> \o Delims,
           <<"+", "a">> \o Delims,
           <<"*", "1">> \o Delims \o <<"$", "-", "1">> \o Delims,
           <<"*", "1">> \o Delims \o <<"$", "1">> \o Delims \o <<"a", "b">> \o Delims,
           <<"*", "1", "\n">>,
           <<"*", "2">> \o Delims \o WireBytes(<<"a">>) }

\* the dispatcher's read returns
ReadRequest ==
    /\ rt.pc = "recv"
    /\ rt' = [rt EXCEPT !.pc = "decoded", !.got = ReadBulkPayload(rt.wire)]
    /\ UNCHANGED <<topics, writers, pub, want, memvars, dial, codec, ctxvars, clivars, flush, backends, Closed,
                   clients, ClientSize, listener, Quit, unloads, proc, conn, disp, log, closer,
                   apc, evpc, watch>>

\* RunClient acts on what the read returned: err = p.handleData(data, ...)
HandleRequest ==
    /\ rt.pc = "decoded"
    /\ rt' = [rt EXCEPT !.pc = Handled(rt.got)]
    /\ UNCHANGED <<topics, writers, pub, want, memvars, dial, codec, ctxvars, clivars, flush, backends, Closed,
                   clients, ClientSize, listener, Quit, unloads, proc, conn, disp, log, closer,
                   apc, evpc, watch>>

\* ------------------------------------------------- client connection pool
\* the largest maxIdle, the ClientConnections that can be made, the users
MaxPool == 2
MaxMade == 3
NUsers == 2

Users == 1..NUsers
PoolConns == 1..MaxMade

srvvars == <<codec, backends, Closed, clients, ClientSize, listener, Quit, unloads, proc,
             conn, disp, log, closer, apc, evpc, watch, dial>>

NoCall == [pc |-> "idle", op |-> "", c |-> 0]

\* NewClient(port, host, maxIdle, bprotocol)
NewClient(m) ==
    /\ maxIdle = m
    /\ connections = <<>>
    /\ netClient = [id \in PoolConns |-> "nil"]
    /\ finalized = [id \in PoolConns |-> "none"]
    /\ made = 0
    /\ user = [u \in Users |-> NoCall]

\* Client.get under the client's mutex: a new ClientConnection (c = 0) when
\* the idle list is empty, else the front of the list, removed from it
get(conns) ==
    IF Len(conns) = 0
    THEN [c |-> 0, connections |-> conns]
    ELSE [c |-> Head(conns), connections |-> Tail(conns)]

putOffByOne(conns, max, c) ==
    IF Len(conns) > max
    THEN [connections |-> conns, finalize |-> TRUE]
    ELSE [connections |-> <<c>> \o conns, finalize |-> FALSE]

\* Client.put under the client's mutex: finalize when the list is full, else
\* PushFront
put(conns, max, c) ==
    IF Len(conns) >= max
    THEN [connections |-> conns, finalize |-> TRUE]
    ELSE [connections |-> <<c>> \o conns, finalize |-> FALSE]

\* ClientConnection.finalize of the connections in ids, called by who: the
\* netClient is closed and set to nil if it is not nil
Finalize(ids, who) ==
    /\ netClient' = [id \in PoolConns |-> IF id \in ids THEN "nil" ELSE netClient[id]]
    /\ finalized' = [id \in PoolConns |->
                        IF id \in ids /\ netClient[id] # "nil" THEN who ELSE finalized[id]]

\* the calls of the client's users: Do, DoAsync, and Get followed by
\* CloseConnection
PoolOps == {"Do", "DoAsync", "Get"}

\* a user's call begins with client.get()
ClientGet(u, op) ==
    /\ user[u].pc = "idle"
    /\ LET g == get(connections)
           c == IF g.c = 0 THEN made + 1 ELSE g.c IN
       /\ g.c = 0 => made < MaxMade
       /\ made' = IF g.c = 0 THEN made + 1 ELSE made
       /\ connections' = g.connections
       /\ user' = [user EXCEPT ![u] = [pc |-> IF op = "Get" THEN "put" ELSE "send",
                                        op |-> op, c |-> c]]
    /\ UNCHANGED <<maxIdle, netClient, finalized, srvvars, psvars, ctxvars, flush>>

\* ClientConnection.DoAsync: connect if netClient is nil, WriteCommand, Flush;
\* the dial can fail, and a failed write or flush finalizes. Client.DoAsync
\* then returns; Client.Do goes on to Read, or to put when there was an error
ConnDoAsync(u) ==
    /\ user[u].pc = "send"
    /\ LET c == user[u].c IN
       \E o \in {"ok", "write"} \cup (IF netClient[c] = "nil" THEN {"dial"} ELSE {}) :
           /\ CASE o = "ok" -> /\ netClient' = [netClient EXCEPT ![c] = "open"]
                               /\ UNCHANGED finalized
                [] o = "dial" -> UNCHANGED <<netClient, finalized>>
                [] o = "write" -> /\ netClient' = [netClient EXCEPT ![c] = "nil"]
                                  /\ finalized' = [finalized EXCEPT ![c] = "error"]
           /\ user' = [user EXCEPT ![u] =
                          IF user[u].op = "DoAsync" THEN NoCall
                          ELSE [@ EXCEPT !.pc = IF o = "ok" THEN "read" ELSE "put"]]
    /\ UNCHANGED <<maxIdle, connections, made, srvvars, psvars, ctxvars, flush>>

\* ClientConnection.Read: a failed read finalizes
ConnRead(u) ==
    /\ user[u].pc = "read"
    /\ \/ UNCHANGED <<netClient, finalized>>
       \/ Finalize({user[u].c}, "error")
    /\ user' = [user EXCEPT ![u].pc = "put"]
    /\ UNCHANGED <<maxIdle, connections, made, srvvars, psvars, ctxvars, flush>>

\* client.put(c) at the end of Client.Do, or Client.CloseConnection
ClientPut(u) ==
    /\ user[u].pc = "put"
    /\ LET p == put(connections, maxIdle, user[u].c) IN
       /\ connections' = p.connections
       /\ IF p.finalize THEN Finalize({user[u].c}, "put")
                        ELSE UNCHANGED <<netClient, finalized>>
    /\ user' = [user EXCEPT ![u] = NoCall]
    /\ UNCHANGED <<maxIdle, made, srvvars, psvars, ctxvars, flush>>

\* Client.Close under the client's mutex: every idle connection is removed
\* from the list and finalized
ClientClose ==
    /\ connections # <<>>
    /\ connections' = <<>>
    /\ Finalize(Range(connections), "Close")
    /\ UNCHANGED <<maxIdle, made, user, srvvars, psvars, ctxvars, flush>>

\* ------------------------------------------------ stats flush goroutine
\* before StatsBackend.Load: no goroutine, no tick, and no flush made after
\* Unload
NoFlush == [pc |-> "off", tick |-> FALSE, late |-> FALSE]

\* LoadBackend has called Load of the stats backend (backend 2): the quit
\* channel and the ticker exist
StatsLoaded == \E i \in DOMAIN backends : backends[i] = 2

\* Unload of the stats backend has closed stats.quit
StatsQuitClosed == unloads[2] > 0

\* the goroutine that Load started begins to run
FlushStart ==
    /\ Running
    /\ StatsLoaded
    /\ flush.pc = "off"
    /\ flush' = [flush EXCEPT !.pc = "select"]
    /\ UNCHANGED <<srvvars, psvars, ctxvars, clivars>>

\* the ticker sends on timer.C, a channel that buffers one tick
Tick ==
    /\ Running
    /\ StatsLoaded
    /\ flush.pc # "stopped"
    /\ ~flush.tick
    /\ flush' = [flush EXCEPT !.tick = TRUE]
    /\ UNCHANGED <<srvvars, psvars, ctxvars, clivars>>

\* select takes case <-stats.timer.C: stats.mem.FlushCounters(); when the
\* quit channel is ready too, select chooses either case
FlushTick ==
    /\ Running
    /\ flush.pc = "select"
    /\ flush.tick
    /\ counters' = FlushCounters(counters, 5)
    /\ flush' = [flush EXCEPT !.tick = FALSE, !.late = @ \/ StatsQuitClosed]
    /\ UNCHANGED <<srvvars, ctxvars, clivars, topics, writers, pub, want, values, ops, rt>>

\* select takes case <-stats.quit: stats.timer.Stop(); return
FlushQuit ==
    /\ Running
    /\ flush.pc = "select"
    /\ StatsQuitClosed
    /\ flush' = [flush EXCEPT !.pc = "stopped"]
    /\ UNCHANGED <<srvvars, psvars, ctxvars, clivars>>

\* ---------------------------------------------------------- specifications
NewDisp == [pc |-> "none", n |-> 0, err |-> "", hnd |-> NoHandler]
NewCloser(pc) == [pc |-> pc, visited |-> {}, idx |-> 1, trace |-> <<>>]

InitServer ==
    /\ Commands = StartupCommands
    /\ CommandHelp = StartupHelp
    /\ flush = NoFlush
    /\ Closed = FALSE
    /\ clients = {}
    /\ ClientSize = 0
    /\ listener = [open |-> TRUE, closes |-> 0]
    /\ Quit = [closed |-> FALSE]
    /\ unloads = [b \in Backends |-> 0]
    /\ proc = [state |-> "running", cause |-> ""]
    /\ conn = [c \in Conns |-> NewConn]
    /\ disp = [c \in Conns |-> NewDisp]
    /\ log = [c \in Conns |-> <<>>]
    /\ watch = [c \in Conns |-> "none"]
    /\ evpc = "recv"
    /\ topics = <<>>
    /\ writers = {}
    /\ pub = NoPublish
    /\ want = [c \in Conns |-> {}]

InitCommon == InitServer /\ NewClient(1)

\* the server serving requests on the accepted connections
Init ==
    /\ InitCommon
    /\ InitMem
    /\ rt = NoRoundTrip
    /\ codec \in {"bulk", "line", "typed"}
    /\ backends = <<>>
    /\ apc = "info1"
    /\ dial = Conns
    /\ closer = [k \in Closers |-> NewCloser("off")]

Next ==
    \/ AcceptInfo \/ AcceptLoop
    \/ \E c \in Conns :
         \/ Accept(c) \/ Watcher(c)
         \/ \E r \in Requests : Read(c, r)
         \/ ReadEOF(c) \/ ReadFail(c) \/ ReadErrEvent(c)
         \/ HandlerRun(c) \/ ErrEvent(c) \/ FatalEvent(c)
         \/ DeferredClose(c)

Spec == Init /\ [][Next]_vars

\* one connection sending requests to the handlers of the default and the
\* stats backend
InitReplies ==
    /\ InitCommon
    /\ InitMem
    /\ rt = NoRoundTrip
    /\ codec \in {"bulk", "line", "typed"}
    /\ backends = <<>>
    /\ apc = "info1"
    /\ dial = {1}
    /\ closer = [k \in Closers |-> NewCloser("off")]

NextReplies ==
    \/ AcceptInfo \/ AcceptLoop
    \/ \E c \in Conns :
         \/ Accept(c) \/ Watcher(c)
         \/ \E r \in HandlerRequests : Read(c, r)
         \/ ReadEOF(c)
         \/ HandlerRun(c) \/ ErrEvent(c)
         \/ DeferredClose(c)

SpecReplies == InitReplies /\ [][NextReplies]_vars

\* the server starting up and shutting down: backends are loaded, connections
\* are accepted and end, any of the tasks may call Close
InitShutdown ==
    /\ InitCommon
    /\ InitMem
    /\ rt = NoRoundTrip
    /\ codec = "bulk"
    /\ backends = <<>>
    /\ apc = "startup"
    /\ dial = {1}
    /\ closer = [k \in Closers |-> NewCloser("idle")]

NextShutdown ==
    \/ AcceptBegin \/ AcceptInfo \/ AcceptLoop \/ AcceptFail \/ AcceptErrEvent \/ ProcExit
    \/ \E b \in Backends : LoadBackend(b)
    \/ \E c \in Conns :
         \/ Accept(c) \/ Watcher(c)
         \/ ReadEOF(c) \/ ReadFail(c) \/ ReadErrEvent(c)
         \/ DeferredClose(c)
    \/ \E k \in Closers :
         \/ CloseBegin(k) \/ CloseEvent(k) \/ CloseFlag(k) \/ CloseClientsDone(k)
         \/ CloseUnload(k) \/ CloseUnloadDone(k) \/ CloseListener(k) \/ CloseQuit(k)
         \/ \E c \in Conns : CloseClient(k, c)

SpecShutdown == InitShutdown /\ [][NextShutdown]_vars

\* The same with the scheduler's fairness: a goroutine that can take a step
\* takes it. A read on a socket that has been closed returns its error.
FairShutdown ==
    /\ WF_vars(AcceptBegin \/ AcceptInfo \/ AcceptLoop \/ AcceptFail \/ AcceptErrEvent)
    /\ WF_vars(ProcExit)
    /\ \A c \in Conns :
          /\ WF_vars(ReadFail(c) /\ ~conn[c].sockOpen)
          /\ WF_vars(ReadErrEvent(c) \/ DeferredClose(c))
          /\ WF_vars(Watcher(c))
    /\ \A k \in Closers :
          WF_vars(CloseEvent(k) \/ CloseFlag(k) \/ CloseClientsDone(k) \/ CloseUnload(k)
                  \/ CloseUnloadDone(k) \/ CloseListener(k) \/ CloseQuit(k)
                  \/ \E c \in Conns : CloseClient(k, c))

SpecShutdownFair == SpecShutdown /\ FairShutdown

\* one connection sending pipelined requests while a task calls Close: the
\* socket is closed under the dispatcher and the writes of its replies fail
InitWriteFail ==
    /\ InitCommon
    /\ InitMem
    /\ rt = NoRoundTrip
    /\ codec = "bulk"
    /\ backends = <<>>
    /\ apc = "info1"
    /\ dial = {1}
    /\ closer = [k \in Closers |-> NewCloser(IF k = 1 THEN "idle" ELSE "off")]

NextWriteFail ==
    \/ AcceptInfo \/ AcceptLoop \/ AcceptFail \/ AcceptErrEvent
    \/ \E c \in Conns :
         \/ Accept(c) \/ Watcher(c)
         \/ \E r \in Requests : Read(c, r)
         \/ ReadEOF(c) \/ ReadFail(c) \/ ReadErrEvent(c)
         \/ HandlerRun(c) \/ ErrEvent(c)
         \/ DeferredClose(c)
    \/ \E k \in Closers :
         \/ CloseBegin(k) \/ CloseEvent(k) \/ CloseFlag(k) \/ CloseClientsDone(k)
         \/ CloseUnloadDone(k) \/ CloseListener(k) \/ CloseQuit(k)
         \/ \E c \in Conns : CloseClient(k, c)

SpecWriteFail == InitWriteFail /\ [][NextWriteFail]_vars

\* commands described with RegisterHelp, then requests for them
InitHelp ==
    /\ InitCommon
    /\ InitMem
    /\ rt = NoRoundTrip
    /\ codec = "bulk"
    /\ backends = <<>>
    /\ apc = "startup"
    /\ dial = {1}
    /\ closer = [k \in Closers |-> NewCloser("off")]

NextHelp ==
    \/ \E cmd \in HelpCommands : RegisterHelpStep(cmd)
    \/ AcceptBegin \/ AcceptInfo \/ AcceptLoop
    \/ \E c \in Conns :
         \/ Accept(c) \/ Watcher(c)
         \/ \E r \in HelpRequests : Read(c, r)
         \/ ReadEOF(c)
         \/ HandlerRun(c) \/ ErrEvent(c)
         \/ DeferredClose(c)

SpecHelp == InitHelp /\ [][NextHelp]_vars

\* users of the Go client calling Do, DoAsync, Get/CloseConnection and Close
InitPool ==
    /\ InitServer
    /\ InitMem
    /\ rt = NoRoundTrip
    /\ \E m \in 0..MaxPool : NewClient(m)
    /\ codec = "bulk"
    /\ backends = <<>>
    /\ apc = "startup"
    /\ dial = {}
    /\ closer = [k \in Closers |-> NewCloser("off")]

NextPool ==
    \/ \E u \in Users :
         \/ \E op \in PoolOps : ClientGet(u, op)
         \/ ConnDoAsync(u) \/ ConnRead(u) \/ ClientPut(u)
    \/ ClientClose

SpecPool == InitPool /\ [][NextPool]_vars

\* the backends are loaded, the flush goroutine runs, tasks call Close
InitFlush ==
    /\ InitCommon
    /\ InitMem
    /\ rt = NoRoundTrip
    /\ codec = "bulk"
    /\ backends = <<>>
    /\ apc = "startup"
    /\ dial = {}
    /\ closer = [k \in Closers |-> NewCloser("idle")]

NextFlush ==
    \/ AcceptBegin \/ AcceptInfo \/ AcceptLoop \/ AcceptFail \/ AcceptErrEvent \/ ProcExit
    \/ \E b \in Backends : LoadBackend(b)
    \/ FlushStart \/ Tick \/ FlushTick \/ FlushQuit
    \/ \E k \in Closers :
         \/ CloseBegin(k) \/ CloseEvent(k) \/ CloseFlag(k) \/ CloseClientsDone(k)
         \/ CloseUnload(k) \/ CloseUnloadDone(k) \/ CloseListener(k) \/ CloseQuit(k)

\* the scheduler runs a goroutine that can take a step
FairFlush ==
    /\ WF_vars(FlushStart)
    /\ WF_vars(FlushQuit)
    /\ \A k \in Closers :
          WF_vars(CloseEvent(k) \/ CloseFlag(k) \/ CloseClientsDone(k) \/ CloseUnload(k)
                  \/ CloseUnloadDone(k) \/ CloseListener(k) \/ CloseQuit(k))

SpecFlush == InitFlush /\ [][NextFlush]_vars /\ FairFlush

\* the memory backend serving the requests of the stats handlers
InitStore ==
    /\ InitCommon
    /\ InitMem
    /\ rt = NoRoundTrip
    /\ codec = "bulk"
    /\ backends = <<2>>
    /\ apc = "startup"
    /\ dial = {}
    /\ closer = [k \in Closers |-> NewCloser("off")]

NextStore == \E r \in StoreRequests : StatsRequest(r)

SpecStore == InitStore /\ [][NextStore]_vars

\* the memory backend listing its keys
NextKeys ==
    \/ \E r \in FillRequests : StatsRequest(r)
    \/ \E r \in KeysRequests : KeysRequest(r)

SpecKeys == InitStore /\ [][NextKeys]_vars

\* a counter as the flushes of the past have left it: no increment pending,
\* h samples in its history
FlushedCounter(h) ==
    [Value |-> 0, RatePerSecond |-> Rate(h + 1, 5), AvgHistory |-> [i \in 1..h |-> Rate(i, 5)]]

\* the counters under COUNT requests and the ticker's flushes, from a new
\* backend or from one whose counter has a history near or at the cap
InitCounters ==
    /\ InitCommon
    /\ codec = "bulk"
    /\ backends = <<2>>
    /\ apc = "startup"
    /\ dial = {}
    /\ closer = [k \in Closers |-> NewCloser("off")]
    /\ rt = NoRoundTrip
    /\ values = <<>>
    /\ ops = <<>>
    /\ counters \in {<<>>} \cup {[k \in {"a"} |-> FlushedCounter(h)] :
                                    h \in {maxCounterHistory - 1, maxCounterHistory}}

NextCounters ==
    \/ \E r \in CountRequests : StatsRequest(r)
    \/ \E d \in FlushSeconds : Flush(d)

SpecCounters == InitCounters /\ [][NextCounters]_vars

\* values of every supported type written to a connection and read back
InitCodec ==
    /\ InitCommon
    /\ InitMem
    /\ codec = "typed"
    /\ backends = <<>>
    /\ apc = "startup"
    /\ dial = {}
    /\ closer = [k \in Closers |-> NewCloser("off")]
    /\ rt \in {[NoRoundTrip EXCEPT !.pc = "write", !.value = v] : v \in Scalars \cup Arrays}

NextCodec == WriteValue \/ ReadValue

SpecCodec == InitCodec /\ [][NextCodec]_vars

\* requests arriving on a connection of the bulk protocol, one per behaviour
InitDecode ==
    /\ InitCommon
    /\ InitMem
    /\ codec = "bulk"
    /\ backends = <<>>
    /\ apc = "startup"
    /\ dial = {}
    /\ closer = [k \in Closers |-> NewCloser("off")]
    /\ rt \in {[NoRoundTrip EXCEPT !.pc = "recv", !.wire = w] : w \in BulkWires}

NextDecode == ReadRequest \/ HandleRequest

SpecDecode == InitDecode /\ [][NextDecode]_vars

\* the pub/sub backend serving the connections the acceptor has registered
InitPubSub ==
    /\ InitMem
    /\ rt = NoRoundTrip
    /\ Commands = StartupCommands
    /\ CommandHelp = StartupHelp
    /\ NewClient(1)
    /\ flush = NoFlush
    /\ codec = "bulk"
    /\ backends = <<>>
    /\ Closed = FALSE
    /\ clients = Conns
    /\ ClientSize = Cardinality(Conns)
    /\ listener = [open |-> TRUE, closes |-> 0]
    /\ Quit = [closed |-> FALSE]
    /\ unloads = [b \in Backends |-> 0]
    /\ proc = [state |-> "running", cause |-> ""]
    /\ conn = [c \in Conns |-> Initialize(NewConn)]
    /\ disp = [c \in Conns |-> [NewDisp EXCEPT !.pc = "read"]]
    /\ log = [c \in Conns |-> <<>>]
    /\ watch = [c \in Conns |-> "waiting"]
    /\ evpc = "recv"
    /\ apc = "accept"
    /\ dial = {}
    /\ closer = [k \in Closers |-> NewCloser("off")]
    /\ topics = <<>>
    /\ writers = {}
    /\ pub = NoPublish
    /\ want = [c \in Conns |-> {}]

NextPubSub ==
    \/ \E c \in Conns :
         \/ \E r \in PsRequests : Read(c, r)
         \/ Subscribe(c) \/ Unsubscribe(c) \/ Publish(c)
         \/ ReadEOF(c) \/ DeferredClose(c) \/ Watcher(c)
    \/ \E w \in writers : DeliverAll(w)

SpecPubSub == InitPubSub /\ [][NextPubSub]_vars

\* publishes to a subscriber whose own dispatcher is serving requests: every
\* write into a connection's buffered writer is a step
WriteRequests ==
    { [name |-> <<"S","U","B","S","C","R","I","B","E">>, args |-> <<T1>>],
      [name |-> <<"P","U","B","L","I","S","H">>, args |-> <<T1, MSG>>],
      [name |-> <<"P","I","N","G">>, args |-> <<>>] }

NextWrites ==
    \/ \E c \in Conns :
         \/ \E r \in WriteRequests : Read(c, r)
         \/ Subscribe(c) \/ Publish(c) \/ HandlerRun(c)
    \/ \E w \in writers : Deliver(w)

SpecWrites == InitPubSub /\ [][NextWrites]_vars

\* ------------------------------------------------------------------ claims
Calls(c, id) == {i \in DOMAIN log[c] : log[c][i].k = "call" /\ log[c][i].v = id}
Events(c, v) == {i \in DOMAIN log[c] : log[c][i].k = "event" /\ log[c][i].v = v}
Reqs(c, names) == {i \in DOMAIN log[c] : log[c][i].k = "req" /\ log[c][i].v \in names}

\* C1: when a registered handler panics on connection c, the panic is caught
\* by c's dispatcher, exactly one fatal event is emitted, c is closed, and
\* the process keeps running
C1_PanicIsolated ==
    \A c \in Conns :
        (Calls(c, "boom") # {} /\ disp[c].hnd.mode = "idle")
        => /\ proc.state # "crashed"
           /\ Cardinality(Events(c, "fatal: client run panic")) <= 1
           /\ disp[c].pc = "done"
                => /\ Cardinality(Events(c, "fatal: client run panic")) = 1
                   /\ ~conn[c].sockOpen

\* C2: on one connection the replies are written in the order the requests
\* were decoded: when a reply for request N is written, no request after N
\* has been decoded and no reply for a later request has been written
C2_RepliesInOrder ==
    \A c \in Conns : \A i, j \in DOMAIN log[c] :
        (i < j /\ log[c][j].k = "frame" /\ log[c][i].k \in {"req", "frame"})
        => log[c][i].n <= log[c][j].n

C2_Witness ==
    \E c \in Conns : \E i, j \in DOMAIN log[c] :
        /\ log[c][i].k = "frame" /\ log[c][i].n = 1
        /\ log[c][j].k = "frame" /\ log[c][j].n = 2

QuitSpellings == {"quit", "QUIT", "Quit", "qUit"}

\* C3: under the bulk and typed protocols a request whose name is QUIT in any
\* letter case is followed by exactly one flushed +OK and nothing else: no
\* handler call, no further request, no further frame; the dispatcher then
\* closes the connection
C3_QuitContract ==
    codec # "line" =>
    \A c \in Conns : \A i \in Reqs(c, QuitSpellings) :
        /\ Len(log[c]) = i + 1
        /\ log[c][i + 1] = Entry("frame", log[c][i].n, "+OK", TRUE)
        /\ disp[c].pc \in {"closing", "done"}
        /\ disp[c].n = log[c][i].n
        /\ disp[c].hnd.mode = "idle"
        /\ disp[c].pc = "done" => (~conn[c].sockOpen /\ conn[c].sockCloses = 1)

C3_Witness ==
    /\ codec # "line"
    /\ \E c \in Conns : Reqs(c, QuitSpellings) # {} /\ disp[c].pc = "done" /\ disp[c].n = 2

UnknownSpellings == {"foo"}

\* C4: a request whose name has no handler and is not QUIT is answered by one
\* error event and one flushed reply "-ERR invalid command format"; no handler
\* is called, the connection stays open and the dispatcher reads on
C4_UnknownCommand ==
    \A c \in Conns : \A i \in Reqs(c, UnknownSpellings) :
        LET n == log[c][i].n IN
        /\ \A j \in DOMAIN log[c] : log[c][j].k = "call" => log[c][j].n # n
        /\ IF Len(log[c]) = i
           THEN disp[c].pc = "evt-err"
           ELSE /\ Len(log[c]) >= i + 2
                /\ log[c][i + 1] = Entry("event", n, "error: accept error", TRUE)
                /\ log[c][i + 2] = Entry("frame", n, "-ERR invalid command format", TRUE)
                /\ Len(log[c]) = i + 2
                     => /\ disp[c].pc \in {"read", "evt-read"}
                        /\ conn[c].sockOpen
                        /\ conn[c].closeCalls = 0
                /\ Len(log[c]) > i + 2
                     => \/ log[c][i + 3].k \in {"req", "eof"}
                        \/ log[c][i + 3] = Entry("event", n, "error: read error", TRUE)

C4_Witness ==
    \E c \in Conns : \E i \in Reqs(c, UnknownSpellings) :
        Len(log[c]) > i + 2 /\ log[c][i + 3].k = "req"

\* C5: however many times Close is called on a connection, its exit channel
\* is closed once without a panic and its socket is closed at most once
C5_CloseIdempotent ==
    \A c \in Conns :
        conn[c].closeCalls >= 1
        => /\ conn[c].quitClosed
           /\ conn[c].sockCloses <= 1
           /\ proc.cause # "close of closed channel: client.Quit"

\* C6: a publish to a topic with S subscribers of which F are not in the
\* registry starts a delivery to exactly the S-F others, returns no error and
\* leaves exactly those S-F addresses in the topic
C6_PublishStale ==
    [][(pub'.cnt # pub.cnt /\ pub'.key \in DOMAIN topics)
        => LET key == pub'.key
               S == topics[key].clients
               F == {c \in S : c \notin clients}
           IN /\ pub'.ret = "nil"
              /\ writers \subseteq writers'
              /\ {w.to : w \in writers' \ writers} = S \ F
              /\ Cardinality(writers' \ writers) = Cardinality(S) - Cardinality(F)
              /\ \A w \in writers' \ writers : w.msg = <<MSG>>
              /\ topics'[key].clients = S \ F
              /\ Cardinality(topics'[key].clients) = Cardinality(S) - Cardinality(F)]_vars

C6_Witness ==
    /\ pub.cnt > 0
    /\ Cardinality(pub.found) = 2
    /\ Cardinality(pub.found \ pub.registry) = 1
    /\ pub.targets # {}
    /\ topics[pub.key].clients = pub.targets

\* C7: under every interleaving a connection in the registry is served by a
\* publish to T exactly when its address is in T's subscriber set, and it is
\* in that set from its completed SUBSCRIBE T until its UNSUBSCRIBE T
C7_SubscribedReceives ==
    /\ pub.cnt > 0 => pub.targets = pub.found \cap pub.registry
    /\ \A c \in clients : \A t \in want[c] :
           t \in DOMAIN topics /\ c \in topics[t].clients

\* C8: for every topic, size equals the number of addresses in clients
C8_CountMatchesSet ==
    \A t \in DOMAIN topics : topics[t].size = Cardinality(topics[t].clients)

\* C9: any number of Close calls on the server, sequential or concurrent,
\* shut down once: every backend is unloaded at most once, the listener is
\* closed at most once, and the quit channel is closed once without a panic
C9_ServerCloseOnce ==
    /\ \A b \in Backends : unloads[b] <= 1
    /\ listener.closes <= 1
    /\ proc.cause \notin {"close of closed channel: app.Quit",
                          "close of closed channel: stats.quit"}

Rank(step) ==
    CASE step = "event" -> 0 [] step = "flag" -> 1 [] step = "client" -> 2
      [] step = "unload" -> 3 [] step = "listener" -> 4 [] step = "quit" -> 5

Unloaded(tr) == SelectSeq(tr, LAMBDA e : e[1] = "unload")

\* C10: a Close call sets the flag, then closes the registered connections,
\* then unloads the backends in registration order, then closes the listener,
\* and only then closes the quit channel
C10_CloseOrder ==
    \A k \in Closers :
        LET tr == closer[k].trace IN
        /\ \A i, j \in DOMAIN tr : i < j => Rank(tr[i][1]) <= Rank(tr[j][1])
        /\ \A i \in DOMAIN Unloaded(tr) :
              i <= Len(backends) /\ Unloaded(tr)[i][2] = backends[i]
        /\ (\E i \in DOMAIN tr : tr[i][1] \in {"listener", "quit"})
              => Len(Unloaded(tr)) = Len(backends)
        /\ (\E i \in DOMAIN tr : tr[i][1] # "event") => Closed
        /\ (\E i \in DOMAIN tr : tr[i][1] = "quit") => ~listener.open
        /\ \A c \in closer[k].visited : ~conn[c].sockOpen

C10_Witness ==
    \E k \in Closers :
        /\ closer[k].pc = "returned"
        /\ Len(backends) = 2
        /\ closer[k].visited # {}
        /\ Len(closer[k].trace) = 7

C11_Variants ==
    [ping  |-> {"Ping"},
     echo  |-> {"echo", "ECHO", "Echo"},
     set   |-> {"set", "Set", "SET"},
     count |-> {"COUNT", "count", "Count"}]

\* C11: under every protocol a request whose name is an upper/lower-case
\* variant of a registered name N invokes the handler registered under N,
\* once, and no handler is invoked for anything else
C11_CaseInsensitiveDispatch ==
    \A c \in Conns :
        /\ \A id \in DOMAIN C11_Variants : \A i \in Reqs(c, C11_Variants[id]) :
              /\ Len(log[c]) > i
              /\ log[c][i + 1] = Entry("call", log[c][i].n, id, TRUE)
        /\ \A j \in DOMAIN log[c] :
              log[c][j].k = "call"
              => /\ j > 1
                 /\ log[c][j - 1].k = "req"
                 /\ log[c][j - 1].n = log[c][j].n
                 /\ log[c][j].v \in DOMAIN C11_Variants
                 /\ log[c][j - 1].v \in C11_Variants[log[c][j].v]

C11_Witness ==
    /\ codec = "line"
    /\ \E c \in Conns : Calls(c, "echo") # {} /\ Calls(c, "count") # {}
                        /\ Reqs(c, {"echo", "Echo"}) # {} /\ Reqs(c, {"count", "Count"}) # {}

FramesOf(c, n) == {j \in DOMAIN log[c] : log[c][j].k = "frame" /\ log[c][j].n = n}

\* the dispatcher has finished with request n of connection c
Served(c, n) ==
    \/ n < disp[c].n
    \/ n = disp[c].n /\ disp[c].hnd.mode = "idle" /\ disp[c].pc \in {"read", "closing", "done"}

\* C12: a request for a command that is not fire-and-forget results in exactly
\* one reply frame on the requesting connection, whatever its arguments
C12_ExactlyOneReply ==
    \A c \in Conns : \A i \in DOMAIN log[c] :
        (log[c][i].k = "call" /\ log[c][i].v \notin FireAndForget /\ Served(c, log[c][i].n))
        => Cardinality(FramesOf(c, log[c][i].n)) = 1

\* C13: a request for a fire-and-forget command never results in a reply
\* frame, an error reply included, on the requesting connection
C13_FireAndForgetSilent ==
    \A c \in Conns : \A i \in DOMAIN log[c] :
        (log[c][i].k = "call" /\ log[c][i].v \in FireAndForget)
        => FramesOf(c, log[c][i].n) = {}

\* C14: on one connection a handler in progress is the handler of the last
\* request decoded and the dispatcher is blocked on it; everything done for
\* request N (call, replies, events) precedes the decoding of request N+1
C14_OneHandlerAtATime ==
    \A c \in Conns :
        /\ disp[c].hnd.mode # "idle"
             => /\ disp[c].pc = "wait"
                /\ disp[c].hnd.n = disp[c].n
                /\ log[c] # <<>>
                /\ log[c][Len(log[c])] = Entry("call", disp[c].n, disp[c].hnd.id, TRUE)
        /\ \A i, j \in DOMAIN log[c] :
             (i < j /\ log[c][i].k = "req") => log[c][i].n <= log[c][j].n

C14_Witness ==
    /\ \A c \in Conns : disp[c].hnd.mode = "go" /\ disp[c].pc = "wait"
    /\ \E c \in Conns : disp[c].n = 2 /\ FramesOf(c, 1) # {}

\* the requests of HandlerRequests whose handler returns an error under the
\* bulk and line protocols, with the reply the error's message makes
C15_Failing ==
    [SET   |-> "-ERR strconv.ParseInt: parsing \"x\": invalid syntax",
     Count |-> "-ERR strconv.ParseInt: parsing \"x\": invalid syntax"]

\* C15: when a handler returns an error the dispatcher emits one error event,
\* writes one flushed reply ERR <the handler's message>, leaves the connection
\* open and reads the next request
C15_HandlerError ==
    codec # "typed" =>
    \A c \in Conns : \A i \in Reqs(c, DOMAIN C15_Failing) :
        LET n == log[c][i].n IN
        /\ Len(log[c]) > i /\ log[c][i + 1].k = "call"
        /\ IF Len(log[c]) = i + 1
           THEN disp[c].pc \in {"wait", "evt-err"}
           ELSE /\ Len(log[c]) >= i + 3
                /\ log[c][i + 2] = Entry("event", n, "error: accept error", TRUE)
                /\ log[c][i + 3] = Entry("frame", n, C15_Failing[log[c][i].v], TRUE)
                /\ Len(log[c]) = i + 3
                     => /\ disp[c].pc = "read"
                        /\ conn[c].sockOpen
                        /\ conn[c].closeCalls = 0
                /\ Len(log[c]) > i + 3 => log[c][i + 4].k \in {"req", "eof"}

C15_Witness ==
    /\ codec = "bulk"
    /\ \E c \in Conns : \E i \in Reqs(c, {"SET"}) :
          Len(log[c]) > i + 3 /\ log[c][i + 4].k = "req"

\* a step of connection c's SUBSCRIBE handler
SubscribeStep(c) == disp[c].hnd.id = "subscribe" /\ disp'[c] # disp[c]

UnsubscribeStep(c) == disp[c].hnd.id = "unsubscribe" /\ disp'[c] # disp[c]

\* C17: UNSUBSCRIBE removes the caller from the named topic and nothing else:
\* no topic is created, a topic that is missing or does not hold the caller is
\* left as it is, and the other subscribers and the other topics are unchanged
C17_UnsubscribeFrame ==
    [][\A c \in Conns :
         (UnsubscribeStep(c) /\ Len(disp[c].hnd.args) >= 1)
         => LET key == disp[c].hnd.args[disp[c].hnd.i] IN
            /\ DOMAIN topics' = DOMAIN topics
            /\ \A t \in DOMAIN topics :
                 IF t = key /\ c \in topics[t].clients
                 THEN /\ topics'[t].clients = topics[t].clients \ {c}
                      /\ topics'[t].size = topics[t].size - 1
                 ELSE topics'[t] = topics[t]]_vars

C17_Witness ==
    \E c \in Conns :
        /\ Calls(c, "unsubscribe") # {} /\ Calls(c, "subscribe") # {}
        /\ disp[c].hnd.mode = "idle"
        /\ T1 \in DOMAIN topics /\ T2 \in DOMAIN topics
        /\ topics[T1] = [size |-> 1, clients |-> Conns \ {c}]
        /\ c \in topics[T2].clients

\* the writes of other tasks that lie between two writes of message id on c
Between(c, id) ==
    {j \in DOMAIN log[c] :
        /\ log[c][j].k \in {"msg", "frame"}
        /\ ~(log[c][j].k = "msg" /\ log[c][j].n = id)
        /\ \E i, k \in DOMAIN log[c] :
              /\ i < j /\ j < k
              /\ log[c][i].k = "msg" /\ log[c][i].n = id
              /\ log[c][k].k = "msg" /\ log[c][k].n = id}

\* C18: the bytes that reach a connection are a concatenation of complete
\* frames, each written by one task: no write of another task lies between
\* two writes of one published message
C18_NoInterleavedWrites ==
    \A c \in Conns : \A id \in 1..pub.cnt : Between(c, id) = {}

MsgsOf(c, id, d) ==
    {j \in DOMAIN log[c] : log[c][j].k = "msg" /\ log[c][j].n = id /\ log[c][j].d = d}

\* C19: PUBLISH is silent towards the publisher and best-effort towards the
\* subscribers: publish returns nil and the publisher gets no reply and no
\* error for it; every delivery publish has started can proceed on its own,
\* whether or not a write to another subscriber has failed, and a write fails
\* only on a connection whose socket is closed
C19_PublishBestEffort ==
    /\ pub.ret = "nil"
    /\ \A c \in Conns :
          /\ disp[c].pc # "evt-err"
          /\ \A i \in Calls(c, "publish") :
                \A j \in DOMAIN log[c] :
                    log[c][j].n = log[c][i].n => log[c][j].k \notin {"frame", "event"}
          /\ \A id \in 1..pub.cnt : MsgsOf(c, id, FALSE) # {} => ~conn[c].sockOpen
    /\ Running => \A w \in writers : ENABLED DeliverAll(w)

C19_Witness ==
    \E c, e \in Conns :
        /\ MsgsOf(c, pub.cnt, FALSE) # {}
        /\ MsgsOf(e, pub.cnt, TRUE) # {}
        /\ Calls(e, "publish") # {}
        /\ disp[e].pc = "read"

\* C20: once Close has set the shutdown flag, every connection in the
\* registry is eventually closed and its dispatcher eventually leaves its
\* loop and returns, a dispatcher blocked in a read included
C20_ShutdownEndsDispatchers ==
    \A c \in Conns :
        (Closed /\ c \in clients /\ disp[c].pc = "read")
            ~> (~conn[c].sockOpen /\ disp[c].pc = "done")

\* C21: the connected-client count equals the number of connections in the
\* registry and is never negative
C21_ClientSizeMatchesRegistry ==
    /\ ClientSize = Cardinality(clients)
    /\ ClientSize >= 0

EofAt(c) == {i \in DOMAIN log[c] : log[c][i].k = "eof"}

\* C22: when the read returns end-of-stream the dispatcher leaves its loop
\* with no reply and no event after it; the connection is then closed, its
\* exit channel fires and the watcher removes it from the registry
C22_EndOfStream ==
    \A c \in Conns : \A i \in EofAt(c) :
        /\ Len(log[c]) = i
        /\ disp[c].pc \in {"closing", "done"}
        /\ disp[c].hnd.mode = "idle"
        /\ disp[c].pc = "done"
             => /\ ~conn[c].sockOpen
                /\ conn[c].quitClosed
                /\ conn[c].closeCalls = 1
                /\ watch[c] \in {"waiting", "done"}
                /\ watch[c] = "done" => c \notin clients

C22_Witness ==
    \E c \in Conns :
        /\ EofAt(c) # {}
        /\ FramesOf(c, 1) # {}
        /\ disp[c].pc = "done"
        /\ watch[c] = "done"
        /\ c \notin clients

\* the connections whose read failed on the framing of the input
FramingFailed(c) == disp[c].err \in FramingErrors /\ disp[c].pc \in {"closing", "done"}

\* C23: a framing error of the input is fatal to the connection: the server
\* writes an error reply to the still-writable connection, emits one error
\* event, starts no handler for that input and closes the connection.
C23_FramingErrorFatal ==
    \A c \in Conns : FramingFailed(c) =>
        LET e == Events(c, "error: read error") IN
        /\ Cardinality(e) = 1
        /\ \A i \in e : \A j \in DOMAIN log[c] : j > i => log[c][j].k = "frame"
        /\ \E j \in DOMAIN log[c] :
              /\ log[c][j].k = "frame"
              /\ log[c][j].v = ErrFrame(disp[c].err)
              /\ log[c][j].d
        /\ disp[c].pc = "done" => ~conn[c].sockOpen

\* the frames of connection c whose write or flush failed
FailedWrites(c) == {i \in DOMAIN log[c] : log[c][i].k = "frame" /\ ~log[c][i].d}

\* C24: an I/O failure while writing or flushing a reply is fatal to the
\* connection: after the failed write no further request is read from the
\* connection and no handler is started for it, and the connection is closed.
C24_WriteFailureFatal ==
    \A c \in Conns : \A i \in FailedWrites(c) :
        /\ \A j \in DOMAIN log[c] : j > i => log[c][j].k \notin {"req", "call"}
        /\ disp[c].pc = "done" => ~conn[c].sockOpen

\* C25: the closed flag of a connection is monotonic: it starts false, it is
\* true from the first Close on, so that IsClosed reports true after any
\* Close, and it never returns to false.
C25_ClosedFlagMonotonic ==
    \A c \in Conns :
        /\ conn[c].closeCalls = 0 => ~IsClosed(conn[c])
        /\ conn[c].closeCalls > 0 => IsClosed(conn[c])

\* the entries of connection c that belong to its n-th request: the handler
\* call, the reply frames and the event of the request's error
OutcomeOf(c, n) ==
    SelectSeq(log[c], LAMBDA e : /\ e.n = n
                                 /\ e.k \in {"call", "frame", "event"}
                                 /\ e.v # "error: read error")

\* what the dispatcher of the bulk protocol puts on the connection and on the
\* event channel for the n-th request r
BulkOutcome(n, r) ==
    LET res == handleData(r, Commands) IN
    CASE res.kind = "quit" -> Frames(n, QuitReply("bulk"), TRUE)
      [] res.kind = "notfound" ->
           <<Entry("event", n, "error: accept error", TRUE),
             Entry("frame", n, ErrFrame(errCmdNotFound), TRUE)>>
      [] OTHER ->
           LET h == HandlerResult(res.id, r.args) IN
           <<Entry("call", n, res.id, TRUE)>> \o Frames(n, h.frames, TRUE)
           \o IF h.ret = "nil" THEN <<>>
              ELSE <<Entry("event", n, "error: accept error", TRUE),
                     Entry("frame", n, ErrFrame(h.ret), TRUE)>>

\* C26: the dispatcher does not depend on the codec: under the line protocol a
\* request that has been served has left the replies and events the bulk
\* protocol's dispatcher leaves for the same request, for QUIT, for unknown
\* commands and for handler errors in particular, and QUIT closes the connection.
C26_CodecIndependent ==
    codec = "line" =>
    \A c \in Conns : \A i \in DOMAIN log[c] :
        (log[c][i].k = "req" /\ Served(c, log[c][i].n)) =>
            \A r \in Requests :
                Join(r.name) = log[c][i].v =>
                    /\ OutcomeOf(c, log[c][i].n) = BulkOutcome(log[c][i].n, r)
                    /\ log[c][i].v \in QuitSpellings => disp[c].pc \in {"closing", "done"}

\* the memory backend after the i-th call
ValuesAfter(i) == IF i = Len(ops) THEN values ELSE ops[i + 1].values
CountersAfter(i) == IF i = Len(ops) THEN counters ELSE ops[i + 1].counters

\* the i-th call is cmd with a key and, where it takes one, a well-formed value
WellFormed(i, cmd) ==
    /\ ops[i].cmd = cmd
    /\ Len(ops[i].d) >= (IF cmd \in {"SET", "SETNX"} THEN 2 ELSE 1)
    /\ Len(ops[i].d) > 1 => readInt64(ops[i].d[2]).err = "nil"

\* the i-th call names key k in a command that can write the values map
Writes(i, k) ==
    /\ ops[i].cmd \in {"SET", "SETNX", "INCR", "DECR", "DEL"}
    /\ \E j \in DOMAIN ops[i].d : Join(ops[i].d[j]) = k
    /\ ops[i].cmd # "DEL" => Join(ops[i].d[1]) = k

\* C27: SetNx(k, v) returns 1 and stores v if and only if k was absent from
\* the values map, otherwise it returns -1 and leaves the map as it was; after
\* a SetNx that returned 1, Get(k) returns v until another call writes k;
\* this in every order in which the mutex lets concurrent calls through
C27_SetNx ==
    \A i \in DOMAIN ops : WellFormed(i, "SETNX") =>
        LET k == Join(ops[i].d[1])
            v == readInt64(ops[i].d[2]).n
            before == ops[i].values
            after == ValuesAfter(i) IN
        /\ ops[i].frames \in {<<":1">>, <<":-1">>}
        /\ ops[i].frames = <<":1">> <=> k \notin DOMAIN before
        /\ k \notin DOMAIN before =>
              /\ DOMAIN after = DOMAIN before \cup {k}
              /\ after[k] = v
              /\ \A o \in DOMAIN before : after[o] = before[o]
        /\ k \in DOMAIN before => after = before
        /\ ops[i].frames = <<":1">> =>
              \A j \in DOMAIN ops :
                  (/\ j > i
                   /\ WellFormed(j, "GET")
                   /\ Join(ops[j].d[1]) = k
                   /\ \A m \in (i + 1)..(j - 1) : ~Writes(m, k))
                  => ops[j].frames = <<":" \o ToString(v)>>

C27_Witness ==
    \E i, j, m \in DOMAIN ops :
        /\ i < j /\ j < m
        /\ WellFormed(i, "SETNX") /\ ops[i].frames = <<":1">>
        /\ WellFormed(j, "SETNX") /\ ops[j].frames = <<":-1">> /\ ops[j].d[1] = ops[i].d[1]
        /\ ops[j].d[2] # ops[i].d[2]
        /\ WellFormed(m, "GET") /\ ops[m].d[1] = ops[i].d[1]

\* no call before the i-th has named key k
Fresh(i, k) ==
    \A j \in 1..(i - 1) : \A a \in DOMAIN ops[j].d : Join(ops[j].d[a]) # k

\* C28: GET k replies with the null bulk if and only if k is not in the values
\* map, never with the integer 0 for a missing key, and otherwise with the
\* integer stored under k; SET k v, GET k, DEL k, GET k on a fresh key reply
\* 1, v, 1 and null in that order
C28_GetNullIffMissing ==
    /\ \A i \in DOMAIN ops : WellFormed(i, "GET") =>
          LET k == Join(ops[i].d[1]) IN
          /\ ops[i].frames = <<"$-1">> <=> k \notin DOMAIN ops[i].values
          /\ k \in DOMAIN ops[i].values => ops[i].frames = <<":" \o ToString(ops[i].values[k])>>
          /\ ops[i].ret = "nil"
    /\ \A i \in DOMAIN ops :
          (/\ i + 3 <= Len(ops)
           /\ WellFormed(i, "SET") /\ Fresh(i, Join(ops[i].d[1]))
           /\ WellFormed(i + 1, "GET") /\ ops[i + 1].d = <<ops[i].d[1]>>
           /\ WellFormed(i + 2, "DEL") /\ ops[i + 2].d = <<ops[i].d[1]>>
           /\ WellFormed(i + 3, "GET") /\ ops[i + 3].d = <<ops[i].d[1]>>)
          => /\ ops[i].frames = <<":1">>
             /\ ops[i + 1].frames = <<":" \o Join(ops[i].d[2])>>
             /\ ops[i + 2].frames = <<":1">>
             /\ ops[i + 3].frames = <<"$-1">>

C28_Witness ==
    /\ Len(ops) = 4
    /\ ops[1].cmd = "SET" /\ ops[1].d = << <<"a">>, <<"0">> >>
    /\ ops[2].cmd = "GET" /\ ops[2].d = << <<"a">> >> /\ ops[2].frames = <<":0">>
    /\ ops[3].cmd = "DEL" /\ ops[3].d = << <<"a">> >>
    /\ ops[4].cmd = "GET" /\ ops[4].d = << <<"a">> >> /\ ops[4].frames = <<"$-1">>

\* the flushes among the first i calls
FlushesUpTo(i) == {j \in 1..i : ops[j].cmd = "flush"}

\* the sum of the increments COUNT made to counter k in the calls m..n
RECURSIVE Counted(_, _, _)
Counted(k, m, n) ==
    IF n < m THEN 0
    ELSE Counted(k, m, n - 1)
         + (IF ops[n].cmd = "COUNT" /\ Join(ops[n].d[1]) = k
            THEN (IF Len(ops[n].d) > 1 THEN readInt64(ops[n].d[2]).n ELSE 1)
            ELSE 0)

\* the call after the last flush before the i-th call
SinceFlush(i) ==
    IF FlushesUpTo(i - 1) = {} THEN 1
    ELSE 1 + CHOOSE j \in FlushesUpTo(i - 1) : \A o \in FlushesUpTo(i - 1) : o <= j

\* C29: a counter's history never has more than maxCounterHistory samples;
\* a flush appends to every counter's history exactly one sample, the rate
\* the counter had before, drops the oldest samples beyond the cap and zeroes
\* the counter's value; the increments made between two flushes are counted
\* in exactly one flush, the next one
C29_FlushCounters ==
    /\ \A k \in DOMAIN counters :
          /\ Len(counters[k].AvgHistory) <= maxCounterHistory
          /\ counters[k].Value = Counted(k, SinceFlush(Len(ops) + 1), Len(ops))
    /\ \A i \in DOMAIN ops : ops[i].cmd = "flush" =>
          LET before == ops[i].counters
              after == CountersAfter(i) IN
          /\ DOMAIN after = DOMAIN before
          /\ \A k \in DOMAIN before :
                LET hb == before[k].AvgHistory
                    ha == after[k].AvgHistory
                    drop == Len(hb) + 1 - Len(ha) IN
                /\ Len(ha) = IF Len(hb) < maxCounterHistory THEN Len(hb) + 1
                                                             ELSE maxCounterHistory
                /\ ha[Len(ha)] = before[k].RatePerSecond
                /\ \A j \in 1..(Len(ha) - 1) : ha[j] = hb[j + drop]
                /\ after[k].Value = 0
                /\ after[k].RatePerSecond = Rate(Counted(k, SinceFlush(i), i - 1), ops[i].d)

C29_Witness ==
    \E i, j \in DOMAIN ops :
        /\ i < j /\ j < Len(ops)
        /\ ops[i].cmd = "flush" /\ ops[j].cmd = "flush"
        /\ "a" \in DOMAIN ops[i].counters
        /\ Len(ops[i].counters["a"].AvgHistory) = maxCounterHistory
        /\ ops[j].counters["a"].Value > 1
        /\ ops[Len(ops)].cmd = "COUNT"

\* C30: encoding then decoding is the identity on the supported values: what
\* ReadInterface returns for the bytes written for a scalar or an array,
\* nested and empty ones included, is that value, with no error and no byte
\* left over
C30_RoundTrip ==
    rt.pc = "done" =>
        /\ rt.got.err = "nil"
        /\ rt.got.val = rt.value
        /\ rt.got.rest = <<>>

\* C31: every request whose name the dispatcher looks up has a non-empty
\* name: a top-level array of zero elements, or with a negative count, is
\* rejected by the decoder as an invalid request and never reaches
\* handleData, so no request makes the dispatcher index a missing first element
C31_NameNonEmpty ==
    /\ rt.pc = "lookup" => (Len(rt.got.val.a) > 0 /\ rt.got.val.a[1].s # <<>>)
    /\ rt.pc \in {"eof", "rejected", "fatal", "lookup"} =>
          (rt.got.err = "nil" => Len(rt.got.val.a) > 0)
    /\ rt.pc # "fatal"

\* a task is inside the loop of Close that ranges over the registry
Iterating == \E k \in Closers : closer[k].pc = "clients"

\* C32: no two tasks access the connection registry at the same time when one
\* of them writes: while the iteration of Close is under way, neither the
\* acceptor's insertion nor an exit watcher's deletion changes the registry
C32_RegistryExclusive ==
    [][Iterating => clients' = clients]_vars

\* connection c's subscribe stores the topic it has found absent
Creates(c) ==
    /\ disp[c].hnd.id = "subscribe"
    /\ disp[c].hnd.absent
    /\ disp'[c].hnd # disp[c].hnd

\* C33: creating a topic is safe against concurrent access to the topic map:
\* the store of a new topic by a first subscriber never removes a subscriber
\* another connection has added in the meantime, so that after two concurrent
\* first SUBSCRIBEs the topic's subscriber set holds both addresses
C33_TopicCreation ==
    [][\A c \in Conns : Creates(c) =>
          LET key == disp[c].hnd.args[disp[c].hnd.i] IN
          /\ key \notin DOMAIN topics
          /\ \A t \in DOMAIN topics : topics[t].clients \subseteq topics'[t].clients]_vars

\* C34: after Close has set the shutdown flag and closed the listener,
\* AcceptConnections eventually returns: it registers no connection once the
\* flag is set, it is never left sending its accept-error event to a consumer
\* that has stopped, and it does not go on looping on the failing Accept
C34_AcceptorReturns ==
    /\ [][Closed => clients' \subseteq clients]_vars
    /\ [](apc = "evt" => evpc # "stopped")
    /\ (Closed /\ ~listener.open) ~> (apc = "returned")


\* the names that are in the help map through RegisterHelp only
HelpOnly == DOMAIN CommandHelp \ DOMAIN StartupHelp

HelpOnlySpellings == {"info", "CMDS"}

CountOf(i) == IF Len(ops[i].d) > 1 THEN readInt64(ops[i].d[2]).n ELSE 1

\* C36: INCR k c and DECR k c reply with the value that is stored under k
\* after the call, which is the value before it (0 for a missing key) plus c
\* or minus c, and a GET k that follows replies with the same number
C36_IncrDecrReturn ==
    \A i \in DOMAIN ops : (WellFormed(i, "INCR") \/ WellFormed(i, "DECR")) =>
        LET k == Join(ops[i].d[1])
            old == IF k \in DOMAIN ops[i].values THEN ops[i].values[k] ELSE 0
            new == IF ops[i].cmd = "INCR" THEN old + CountOf(i) ELSE old - CountOf(i)
            after == ValuesAfter(i) IN
        /\ k \in DOMAIN after /\ after[k] = new
        /\ ops[i].frames = <<WriteInt64(after[k])>>
        /\ (i < Len(ops) /\ WellFormed(i + 1, "GET") /\ ops[i + 1].d[1] = ops[i].d[1])
              => ops[i + 1].frames = ops[i].frames

\* DECR on a missing key replies 1, stores -1, and the GET replies -1
C36_DecrMissing ==
    /\ Len(ops) = 2
    /\ ops[1].cmd = "DECR" /\ ops[1].d = << <<"a">> >> /\ ops[1].values = <<>>
    /\ ops[1].frames = <<":1">>
    /\ ops[2].cmd = "GET" /\ ops[2].d = << <<"a">> >> /\ ops[2].frames = <<":-1">>

\* the orders in which the elements of S can be listed, each once
Orders(S) == {o \in [1..Cardinality(S) -> S] : Range(o) = S}

\* C37: KEYS without a pattern or with the pattern "*" replies with the keys
\* of the values map, each once and nothing else, in some order, whatever
\* SET, SETNX, INCR, DECR and DEL calls came before
C37_KeysAll ==
    \A i \in DOMAIN ops :
        (ops[i].cmd = "KEYS" /\ ops[i].d \in {<<>>, << <<"*">> >>})
        => \E o \in Orders(DOMAIN ops[i].values) : ops[i].frames = <<KeysReply(o)>>

\* two keys in the map and a reply that lists one key and an empty string
C37_TwoKeys ==
    \E i \in DOMAIN ops :
        /\ ops[i].cmd = "KEYS" /\ ops[i].d = <<>>
        /\ DOMAIN ops[i].values = {"a", "b"}
        /\ ops[i].frames = <<"*2+b+">>

\* the connections that a user's unfinished call holds
InUse == {user[u].c : u \in {v \in Users : user[v].pc # "idle"}}

\* C38: whatever the order of the users' get, put and Close calls, the idle
\* list never holds more than maxIdle connections, holds no connection twice
\* and holds no connection that a user's call has in use, and a put onto a full
\* list closes the connection and leaves the list as it was
C38_PoolInvariants ==
    /\ [](Len(connections) <= maxIdle)
    /\ [](\A i, j \in DOMAIN connections : connections[i] = connections[j] => i = j)
    /\ [](InUse \cap Range(connections) = {})
    /\ [][\A u \in Users :
            (user[u].pc = "put" /\ user'[u].pc = "idle" /\ Len(connections) >= maxIdle)
            => /\ connections' = connections
               /\ netClient'[user[u].c] = "nil"]_vars

C38_Witness ==
    /\ maxIdle = 1
    /\ \E a, b \in PoolConns :
         /\ connections = <<a>> /\ netClient[a] = "open"
         /\ a # b /\ finalized[b] = "put" /\ netClient[b] = "nil"

\* C39: a connection that a finished Do or DoAsync call had taken from the pool
\* is in the idle list, in use by a later call, or closed: no open connection
\* is outside the pool without a call that holds it
C39_NoLeak ==
    \A id \in PoolConns :
        netClient[id] = "open" => (id \in Range(connections) \/ id \in InUse)

\* C40: FlushCounters is not executed after Unload has closed the quit
\* channel, the flush goroutine ends after Unload (or the process does), and
\* a shutdown calls Unload of every loaded backend exactly once
C40_FlushBetweenLoadAndUnload ==
    /\ [](~flush.late)
    /\ [](\A b \in Backends : unloads[b] <= 1)
    /\ [](proc.cause # "close of closed channel: stats.quit")
    /\ [](Quit.closed => \A i \in DOMAIN backends : unloads[backends[i]] = 1)
    /\ StatsQuitClosed ~> (flush.pc = "stopped" \/ ~Running)
====
